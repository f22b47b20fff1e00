------------------------- MODULE WsConnectionProofs -------------------------
(***************************************************************************)
(* Proofs about WsConnection, for any number of connections, swarm workers *)
(* and messages and any size of the channels: the parts of a scrape find   *)
(* the scrape they belong to.                                              *)
(***************************************************************************)
EXTENDS WsConnection, TLAPS, FiniteSetTheorems

\* What the channels carry.  Parts and responses of a scrape have the id of
\* its entry in the slab.
Part == {p \in [worker: Workers, kind: {"announce", "scrape"},
                id: PendingScrapeIds \cup {Absent}, number: Nat, info_hashes: SUBSET InfoHashes] :
            p.kind = "scrape" => p.id \in PendingScrapeIds}
InMessage == [conn: Connections, part: Part]
Response == {m \in [to: Connections, kind: {"announce", "scrape", "offer", "error"},
                    worker: Workers \cup {Absent}, id: PendingScrapeIds \cup {Absent},
                    number: Nat, files: SUBSET InfoHashes] :
                m.kind = "scrape" => m.id \in PendingScrapeIds /\ m.worker \in Workers}
Slab == [PendingScrapeIds -> PendingScrapeResponse \cup {Absent}]

TypeInv ==
    /\ config \in Configs
    /\ phase \in [Connections -> {"new", "spawned", "tls", "peeking", "handshake", "open",
                                  "closing", "closed"}]
    /\ handles \subseteq Connections
    /\ close_sent \in [Connections -> BOOLEAN]
    /\ sent \in [Connections -> Nat] /\ offers \in [Connections -> Nat]
    /\ to_send \in [Connections -> Seq(Part)]
    /\ slab \in [Connections -> Slab]
    /\ in_channel \in [Workers -> Seq(InMessage)]
    /\ out \subseteq Response
    /\ inbox \in [Connections -> Seq(Response)]

----------------------------------------------------------------------------
(***************************************************************************)
(* Where the parts of a scrape are                                         *)
(***************************************************************************)
\* Parts of scrape number n of connection c for swarm worker w: with the
\* reader, in a request channel, and as a response.
PartOf(n, w) == {p \in Part : p.kind = "scrape" /\ p.number = n /\ p.worker = w}
RequestOf(c, n, w) == {m \in InMessage : m.conn = c /\ m.part \in PartOf(n, w)}
ResponseOf(c, n, w) ==
    {m \in Response : m.to = c /\ m.kind = "scrape" /\ m.number = n /\ m.worker = w}

Has(q, S) == \E k \in DOMAIN q : q[k] \in S
One(q, S) == \A j, k \in DOMAIN q : q[j] \in S /\ q[k] \in S => j = k

\* In the reader's parts ts, the request channel q, the responses o and the
\* local channel ib there is one of the given messages at most.
Once(ts, q, o, ib, P, I, R) ==
    /\ One(ts, P) /\ One(q, I) /\ One(ib, R)
    /\ \A x, y \in o \cap R : x = y
    /\ ~(Has(ts, P) /\ Has(q, I)) /\ ~(Has(ts, P) /\ o \cap R # {}) /\ ~(Has(ts, P) /\ Has(ib, R))
    /\ ~(Has(q, I) /\ o \cap R # {}) /\ ~(Has(q, I) /\ Has(ib, R)) /\ ~(o \cap R # {} /\ Has(ib, R))

\* One of them has the id i.
Somewhere(ts, q, o, ib, P, I, R, i) ==
    \/ Has(ts, {p \in P : p.id = i})
    \/ Has(q, {m \in I : m.part.id = i})
    \/ o \cap {m \in R : m.id = i} # {}
    \/ Has(ib, {m \in R : m.id = i})

Key == [worker: Workers, id: PendingScrapeIds]

\* OnTheirWay, as a set of keys.
Way(c, n, ts, ch, o, ib) ==
    {r \in Key : Somewhere(ts, ch[r.worker], o, ib, PartOf(n, r.worker),
                           RequestOf(c, n, r.worker), ResponseOf(c, n, r.worker), r.id)}

OnceOk(c, ts, ch, o, ib) ==
    \A n \in Nat, w \in Workers :
        Once(ts, ch[w], o, ib, PartOf(n, w), RequestOf(c, n, w), ResponseOf(c, n, w))

\* The slab sl of connection c, which has sent s messages, has an entry for all
\* parts on their way.
SlabOk(c, ts, ch, o, ib, sl, s) ==
    /\ \A i \in PendingScrapeIds : sl[i] # Absent => sl[i].number <= s
    /\ \A n \in Nat : \A r \in Way(c, n, ts, ch, o, ib) :
          /\ sl[r.id] # Absent /\ sl[r.id].number = n
          /\ sl[r.id].pending >= Cardinality(Way(c, n, ts, ch, o, ib))

Ended(c) == phase[c] \in {"closing", "closed"}

\* Requests are with the worker and responses with the connection they are for.
RightPlace ==
    /\ \A w \in Workers : \A k \in DOMAIN in_channel[w] : in_channel[w][k].part.worker = w
    /\ \A c \in Connections : \A k \in DOMAIN inbox[c] : inbox[c][k].to = c

ScrapeInv ==
    /\ RightPlace
    /\ \A c \in Connections : OnceOk(c, to_send[c], in_channel, out, inbox[c])
    /\ \A c \in Connections :
          Ended(c) \/ SlabOk(c, to_send[c], in_channel, out, inbox[c], slab[c], sent[c])

----------------------------------------------------------------------------
(***************************************************************************)
(* Types                                                                   *)
(***************************************************************************)
LEMMA CloseType ==
  ASSUME TypeInv, NEW c \in Connections, Close(c)
  PROVE  /\ phase' \in [Connections -> {"new", "spawned", "tls", "peeking", "handshake", "open",
                                        "closing", "closed"}]
         /\ to_send' \in [Connections -> Seq(Part)]
         /\ slab' \in [Connections -> Slab]
         /\ inbox' \in [Connections -> Seq(Response)]
<1>1. [i \in PendingScrapeIds |-> Absent] \in Slab
  BY DEF Slab
<1>2. <<>> \in Seq(Part) /\ <<>> \in Seq(Response)
  OBVIOUS
<1> QED BY <1>1, <1>2 DEF TypeInv, Close

\* The messages that the actions build.
LEMMA MessageTypes ==
  /\ \A h \in InfoHashes, n \in Nat :
        [worker |-> worker_of[h], kind |-> "announce", id |-> Absent, number |-> n,
         info_hashes |-> {h}] \in Part
  /\ \A w \in Workers, i \in PendingScrapeIds, n \in Nat, s \in SUBSET InfoHashes :
        [worker |-> w, kind |-> "scrape", id |-> i, number |-> n, info_hashes |-> s] \in Part
  /\ \A c \in Connections, p \in Part : [conn |-> c, part |-> p] \in InMessage
  /\ \A c \in Connections, p \in Part : OutMessage(c, p.kind, p) \in Response
  /\ \A c \in Connections, n \in Nat, kind \in {"offer", "error"} :
        OutMessage(c, kind, [worker |-> Absent, id |-> Absent, number |-> n,
                             info_hashes |-> {}]) \in Response
<1>1. ASSUME NEW h \in InfoHashes, NEW n \in Nat
      PROVE  [worker |-> worker_of[h], kind |-> "announce", id |-> Absent, number |-> n,
              info_hashes |-> {h}] \in Part
  BY WsConnectionAssumption DEF Part
<1>2. ASSUME NEW w \in Workers, NEW i \in PendingScrapeIds, NEW n \in Nat,
             NEW s \in SUBSET InfoHashes
      PROVE  [worker |-> w, kind |-> "scrape", id |-> i, number |-> n, info_hashes |-> s] \in Part
  BY DEF Part
<1>3. ASSUME NEW c \in Connections, NEW p \in Part
      PROVE  [conn |-> c, part |-> p] \in InMessage
  BY DEF InMessage
<1>4. ASSUME NEW c \in Connections, NEW p \in Part
      PROVE  OutMessage(c, p.kind, p) \in Response
  BY DEF Part, Response, OutMessage
<1>5. ASSUME NEW c \in Connections, NEW n \in Nat, NEW kind \in {"offer", "error"}
      PROVE  OutMessage(c, kind, [worker |-> Absent, id |-> Absent, number |-> n,
                                  info_hashes |-> {}]) \in Response
  BY DEF Response, OutMessage
<1> QED BY <1>1, <1>2, <1>3, <1>4, <1>5

\* The parts of a scrape: one for each of its swarm workers.
LEMMA PartsType ==
  ASSUME NEW hashes \in SUBSET InfoHashes, NEW parts \in Parts(hashes)
  PROVE  /\ Len(parts) \in Nat /\ DOMAIN parts = 1 .. Len(parts)
         /\ \A k \in 1 .. Len(parts) : parts[k] \in Workers
         /\ \A j, k \in 1 .. Len(parts) : parts[j] = parts[k] => j = k
<1> DEFINE workers == {worker_of[h] : h \in hashes}
<1>1. workers \in SUBSET Workers
  BY WsConnectionAssumption
<1>2. Cardinality(workers) \in Nat
  BY <1>1, WsConnectionAssumption, FS_Subset, FS_CardinalityType
<1>3. /\ parts \in [1 .. Cardinality(workers) -> workers]
      /\ \A i, j \in DOMAIN parts : i < j => parts[i] < parts[j]
  BY DEF Parts
<1> HIDE DEF workers
<1>4. Len(parts) = Cardinality(workers)
  BY <1>2, <1>3
<1>5. \A k \in 1 .. Len(parts) : parts[k] \in Workers /\ parts[k] \in Nat
  BY <1>1, <1>3, <1>4, WsConnectionAssumption
<1>6. ASSUME NEW j \in 1 .. Len(parts), NEW k \in 1 .. Len(parts), parts[j] = parts[k]
      PROVE  j = k
  <2>1. j \in DOMAIN parts /\ k \in DOMAIN parts
    BY <1>3, <1>4
  <2>2. ~(j < k) /\ ~(k < j)
    BY <1>3, <1>5, <1>6, <2>1
  <2> QED BY <1>2, <1>4, <2>2
<1> QED BY <1>2, <1>3, <1>4, <1>5, <1>6

\* A part is counted and its numbers are collected.
LEMMA CountedDown ==
  ASSUME NEW entry \in PendingScrapeResponse, NEW files \in SUBSET InfoHashes
  PROVE  LET now == [entry EXCEPT !.pending = @ - 1, !.files = @ \cup files]
         IN  /\ now \in PendingScrapeResponse
             /\ now.pending = entry.pending - 1 /\ now.number = entry.number
<1> DEFINE n == entry.pending - 1
           f == entry.files \cup files
<1>1. n \in Int /\ f \in SUBSET InfoHashes
  BY DEF PendingScrapeResponse
<1> HIDE DEF n, f
<1>2. /\ [entry EXCEPT !.pending = n, !.files = f] \in PendingScrapeResponse
      /\ [entry EXCEPT !.pending = n, !.files = f].pending = n
      /\ [entry EXCEPT !.pending = n, !.files = f].number = entry.number
  BY <1>1 DEF PendingScrapeResponse
<1> QED BY <1>2 DEF n, f

\* What a scrape adds to the slab and gives to the reader to send.
LEMMA ScrapeType ==
  ASSUME NEW hashes \in SUBSET InfoHashes, NEW parts \in Parts(hashes),
         NEW i \in PendingScrapeIds, NEW n \in Nat
  PROVE  /\ [pending |-> Len(parts), number |-> n, files |-> {}] \in PendingScrapeResponse
         /\ [k \in DOMAIN parts |->
               [worker |-> parts[k], kind |-> "scrape", id |-> i, number |-> n,
                info_hashes |-> {h \in hashes : worker_of[h] = parts[k]}]] \in Seq(Part)
<1>1. /\ Len(parts) \in Nat /\ DOMAIN parts = 1 .. Len(parts)
      /\ \A k \in 1 .. Len(parts) : parts[k] \in Workers
  BY PartsType
<1>2. [pending |-> Len(parts), number |-> n, files |-> {}] \in PendingScrapeResponse
  BY <1>1 DEF PendingScrapeResponse
<1>3. ASSUME NEW k \in 1 .. Len(parts)
      PROVE  [worker |-> parts[k], kind |-> "scrape", id |-> i, number |-> n,
              info_hashes |-> {h \in hashes : worker_of[h] = parts[k]}] \in Part
  <2>1. parts[k] \in Workers /\ {h \in hashes : worker_of[h] = parts[k]} \in SUBSET InfoHashes
    BY <1>1
  <2> QED BY <2>1, MessageTypes
<1> DEFINE P(k) == [worker |-> parts[k], kind |-> "scrape", id |-> i, number |-> n,
                    info_hashes |-> {h \in hashes : worker_of[h] = parts[k]}]
<1>4. \A k \in 1 .. Len(parts) : P(k) \in Part
  BY <1>3
<1> HIDE DEF P
<1>5. [k \in 1 .. Len(parts) |-> P(k)] \in Seq(Part)
  BY <1>1, <1>4
<1> QED BY <1>1, <1>2, <1>5 DEF P

LEMMA TypeStep == TypeInv /\ [Next]_vars => TypeInv'
<1> SUFFICES ASSUME TypeInv, [Next]_vars PROVE TypeInv'
  OBVIOUS
<1> USE DEF lists, handle, session, reader
<1>1. ASSUME UNCHANGED vars PROVE TypeInv'
  BY <1>1 DEF vars, TypeInv
<1>2. ASSUME NEW c \in Connections,
             Refuse(c) \/ Accept(c) \/ RunInner(c) \/ Negotiated(c) \/ NotifyClosed(c) \/ Closed(c)
      PROVE  TypeInv'
  BY <1>2 DEF Refuse, Accept, RunInner, Negotiated, NotifyClosed, Closed, TypeInv
<1>3. ASSUME NEW c \in Connections, StreamEnded(c) \/ Inactive(c) \/ WriteFailed(c)
      PROVE  TypeInv'
  <2>1. Close(c) /\ UNCHANGED <<config, handles, close_sent, sent, offers, in_channel, out>>
    BY <1>3 DEF StreamEnded, Inactive, WriteFailed
  <2> QED BY <2>1, CloseType DEF TypeInv
<1>4. ASSUME NEW c \in Connections, Handshake(c) PROVE TypeInv'
  <2>1. /\ \/ Close(c)
           \/ /\ phase' = [phase EXCEPT ![c] = "open"] /\ UNCHANGED <<to_send, slab, inbox>>
        /\ UNCHANGED <<config, handles, close_sent, sent, offers, in_channel, out>>
    BY <1>4 DEF Handshake
  <2>2. CASE Close(c)
    BY <2>1, <2>2, CloseType DEF TypeInv
  <2>3. CASE phase' = [phase EXCEPT ![c] = "open"] /\ UNCHANGED <<to_send, slab, inbox>>
    BY <2>1, <2>3 DEF TypeInv
  <2> QED BY <2>1, <2>2, <2>3
<1>5. ASSUME clean_connections \/ Tick \/ Sigusr1 \/ Sigusr2 PROVE TypeInv'
  <2>1. /\ handles' \subseteq handles
        /\ UNCHANGED close_sent \/ close_sent' = [c \in Connections |-> close_sent[c] \/ c \in handles \ Retained]
        /\ UNCHANGED <<config, phase, sent, offers, to_send, slab, in_channel, out, inbox>>
    BY <1>5 DEF clean_connections, Tick, Sigusr1, Sigusr2, Retained
  <2>2. close_sent' \in [Connections -> BOOLEAN]
    BY <2>1 DEF TypeInv
  <2> QED BY <2>1, <2>2 DEF TypeInv
<1>6. ASSUME NEW c \in Connections, NEW m \in Messages[c], ReadRefused(c, m) PROVE TypeInv'
  <2>1. /\ sent' = [sent EXCEPT ![c] = @ + 1]
        /\ UNCHANGED <<config, phase, handles, close_sent, offers, to_send, slab, in_channel, out, inbox>>
    BY <1>6 DEF ReadRefused, Taken, Replied
  <2> QED BY <2>1 DEF TypeInv
<1>7. ASSUME NEW c \in Connections, NEW m \in Messages[c], handle_announce_request(c, m)
      PROVE  TypeInv'
  <2>1. /\ sent' = [sent EXCEPT ![c] = @ + 1]
        /\ UNCHANGED <<config, phase, handles, close_sent, offers, slab, in_channel, out, inbox>>
    BY <1>7 DEF handle_announce_request, Taken
  <2>2. PICK h \in m.info_hashes :
           to_send' = [to_send EXCEPT ![c] = <<[worker |-> worker_of[h], kind |-> "announce",
                           id |-> Absent, number |-> sent'[c], info_hashes |-> {h}]>>]
    BY <1>7 DEF handle_announce_request
  <2>3. sent' \in [Connections -> Nat]
    BY <2>1 DEF TypeInv
  <2>4. h \in InfoHashes /\ sent'[c] \in Nat
    BY <2>3, WsConnectionAssumption
  <2>5. to_send' \in [Connections -> Seq(Part)]
    <3>1. PICK p \in Part : to_send' = [to_send EXCEPT ![c] = <<p>>]
      BY <2>2, <2>4, MessageTypes
    <3> QED BY <3>1 DEF TypeInv
  <2> QED BY <2>1, <2>3, <2>5 DEF TypeInv
<1>8. ASSUME NEW c \in Connections, NEW m \in Messages[c], handle_scrape_request(c, m)
      PROVE  TypeInv'
  <2>1. /\ sent' = [sent EXCEPT ![c] = @ + 1]
        /\ UNCHANGED <<config, handles, close_sent, offers, in_channel, out>>
    BY <1>8 DEF handle_scrape_request, Taken
  <2>2. sent' \in [Connections -> Nat] /\ sent'[c] \in Nat
    BY <2>1 DEF TypeInv
  <2>3. CASE Close(c)
    BY <2>1, <2>2, <2>3, CloseType DEF TypeInv
  <2>4. CASE ~Close(c)
    <3>1. /\ UNCHANGED <<phase, inbox>>
          /\ \E i \in Free(c), parts \in Parts(m.info_hashes) :
               /\ slab' = [slab EXCEPT ![c][i] =
                    [pending |-> Len(parts), number |-> sent'[c], files |-> {}]]
               /\ to_send' = [to_send EXCEPT ![c] =
                    [k \in DOMAIN parts |->
                       [worker |-> parts[k], kind |-> "scrape", id |-> i,
                        number |-> sent'[c],
                        info_hashes |-> {h \in m.info_hashes : worker_of[h] = parts[k]}]]]
      BY <1>8, <2>4 DEF handle_scrape_request
    <3>2. m.info_hashes \in SUBSET InfoHashes
      BY WsConnectionAssumption
    <3>3. PICK i \in PendingScrapeIds, e \in PendingScrapeResponse, s \in Seq(Part) :
             slab' = [slab EXCEPT ![c][i] = e] /\ to_send' = [to_send EXCEPT ![c] = s]
      <4>1. PICK i \in Free(c), parts \in Parts(m.info_hashes) :
               /\ slab' = [slab EXCEPT ![c][i] =
                    [pending |-> Len(parts), number |-> sent'[c], files |-> {}]]
               /\ to_send' = [to_send EXCEPT ![c] =
                    [k \in DOMAIN parts |->
                       [worker |-> parts[k], kind |-> "scrape", id |-> i,
                        number |-> sent'[c],
                        info_hashes |-> {h \in m.info_hashes : worker_of[h] = parts[k]}]]]
        BY <3>1
      <4>2. i \in PendingScrapeIds
        BY DEF Free
      <4>3. /\ [pending |-> Len(parts), number |-> sent'[c], files |-> {}] \in PendingScrapeResponse
            /\ [k \in DOMAIN parts |->
                  [worker |-> parts[k], kind |-> "scrape", id |-> i, number |-> sent'[c],
                   info_hashes |-> {h \in m.info_hashes : worker_of[h] = parts[k]}]] \in Seq(Part)
        BY <2>2, <3>2, <4>2, ScrapeType
      <4> QED BY <4>1, <4>2, <4>3, Zenon
    <3>4. slab' \in [Connections -> Slab] /\ to_send' \in [Connections -> Seq(Part)]
      BY <3>3 DEF TypeInv, Slab
    <3> QED BY <2>1, <2>2, <3>1, <3>4 DEF TypeInv
  <2> QED BY <2>3, <2>4
<1>9. ASSUME NEW c \in Connections, Send(c) PROVE TypeInv'
  <2>1. PICK p : p = Head(to_send[c])
    OBVIOUS
  <2>2. to_send[c] \in Seq(Part) /\ to_send[c] # <<>>
    BY <1>9 DEF Send, TypeInv
  <2>3. p \in Part /\ Tail(to_send[c]) \in Seq(Part)
    BY <2>1, <2>2
  <2>4. p.worker \in Workers /\ [conn |-> c, part |-> p] \in InMessage
    BY <2>3, MessageTypes DEF Part
  <2>5. /\ in_channel' = [in_channel EXCEPT ![p.worker] = Append(@, [conn |-> c, part |-> p])]
        /\ to_send' = [to_send EXCEPT ![c] = Tail(@)]
        /\ UNCHANGED <<config, phase, handles, close_sent, sent, offers, slab, out, inbox>>
    BY <1>9, <2>1 DEF Send
  <2>6. in_channel' \in [Workers -> Seq(InMessage)]
    BY <2>4, <2>5 DEF TypeInv
  <2>7. to_send' \in [Connections -> Seq(Part)]
    BY <2>3, <2>5 DEF TypeInv
  <2> QED BY <2>5, <2>6, <2>7 DEF TypeInv
<1>10. ASSUME NEW c \in Connections, send_error_response(c) PROVE TypeInv'
  <2>1. UNCHANGED <<config, handles, close_sent, sent, offers, in_channel, out>>
    BY <1>10 DEF send_error_response
  <2>2. CASE Close(c)
    BY <2>1, <2>2, CloseType DEF TypeInv
  <2>3. CASE ~Close(c)
    <3>1. PICK m \in Response : inbox' = [inbox EXCEPT ![c] = Append(@, m)]
      <4>1. inbox' = [inbox EXCEPT ![c] = Append(@, OutMessage(c, "error",
                         [worker |-> Absent, id |-> Absent, number |-> sent[c],
                          info_hashes |-> {}]))]
        BY <1>10, <2>3 DEF send_error_response
      <4>2. sent[c] \in Nat
        BY DEF TypeInv
      <4> QED BY <4>1, <4>2, MessageTypes
    <3>2. UNCHANGED <<phase, to_send, slab>>
      BY <1>10, <2>3 DEF send_error_response
    <3>3. inbox' \in [Connections -> Seq(Response)]
      BY <3>1 DEF TypeInv
    <3> QED BY <2>1, <3>2, <3>3 DEF TypeInv
  <2> QED BY <2>2, <2>3
<1>11. ASSUME NEW w \in Workers, HandleMessage(w) PROVE TypeInv'
  <2>1. PICK m : m = Head(in_channel[w])
    OBVIOUS
  <2>2. in_channel[w] \in Seq(InMessage) /\ in_channel[w] # <<>>
    BY <1>11 DEF HandleMessage, TypeInv
  <2>3. m \in InMessage /\ Tail(in_channel[w]) \in Seq(InMessage)
    BY <2>1, <2>2
  <2>4. OutMessage(m.conn, m.part.kind, m.part) \in Response
    BY <2>3, MessageTypes DEF InMessage
  <2>5. /\ out' = out \cup {OutMessage(m.conn, m.part.kind, m.part)} \/ UNCHANGED out
        /\ in_channel' = [in_channel EXCEPT ![w] = Tail(@)]
        /\ UNCHANGED <<config, phase, handles, close_sent, sent, offers, to_send, slab, inbox>>
    BY <1>11, <2>1 DEF HandleMessage
  <2>6. out' \subseteq Response
    BY <2>4, <2>5 DEF TypeInv
  <2>7. in_channel' \in [Workers -> Seq(InMessage)]
    BY <2>3, <2>5 DEF TypeInv
  <2> QED BY <2>5, <2>6, <2>7 DEF TypeInv
<1>12. ASSUME NEW c \in Connections, PassOn(c) PROVE TypeInv'
  <2>1. /\ offers' = [offers EXCEPT ![c] = @ + 1]
        /\ out' = out \cup {OutMessage(c, "offer", [worker |-> Absent, id |-> Absent,
                               number |-> offers'[c], info_hashes |-> {}])}
        /\ UNCHANGED <<config, phase, handles, close_sent, sent, to_send, slab, in_channel, inbox>>
    BY <1>12 DEF PassOn
  <2>2. offers' \in [Connections -> Nat] /\ offers'[c] \in Nat
    BY <2>1 DEF TypeInv
  <2>3. out' \subseteq Response
    BY <2>1, <2>2, MessageTypes DEF TypeInv
  <2> QED BY <2>1, <2>2, <2>3 DEF TypeInv
<1>13. ASSUME NEW m \in out, receive_out_message(m) PROVE TypeInv'
  <2>1. /\ out' = out \ {m}
        /\ inbox' = [inbox EXCEPT ![m.to] = Append(@, m)] \/ inbox' = inbox
        /\ UNCHANGED <<config, phase, handles, close_sent, sent, offers, to_send, slab, in_channel>>
    BY <1>13 DEF receive_out_message
  <2>2. m \in Response /\ m.to \in Connections
    BY DEF TypeInv, Response
  <2>3. PICK c \in Connections : c = m.to
    BY <2>2
  <2>4. inbox[c] \in Seq(Response) /\ Append(inbox[c], m) \in Seq(Response)
    BY <2>2 DEF TypeInv
  <2>5. inbox' = [inbox EXCEPT ![c] = Append(inbox[c], m)] \/ inbox' = inbox
    BY <2>1, <2>3
  <2>6. inbox' \in [Connections -> Seq(Response)]
    BY <2>4, <2>5 DEF TypeInv
  <2> QED BY <2>1, <2>6 DEF TypeInv
<1>14. ASSUME NEW c \in Connections, TakeOutMessage(c) PROVE TypeInv'
  <2>1. UNCHANGED <<config, handles, close_sent, sent, offers, in_channel, out>>
    BY <1>14 DEF TakeOutMessage
  <2>2. PICK m : m = Head(inbox[c])
    OBVIOUS
  <2>3. inbox[c] \in Seq(Response) /\ inbox[c] # <<>>
    BY <1>14 DEF TakeOutMessage, TypeInv
  <2>4. m \in Response /\ Tail(inbox[c]) \in Seq(Response)
    BY <2>2, <2>3
  <2>5. CASE Close(c)
    BY <2>1, <2>5, CloseType DEF TypeInv
  <2>6. CASE ~Close(c) /\ m.kind # "scrape"
    <3>1. inbox' = [inbox EXCEPT ![c] = Tail(@)] /\ UNCHANGED <<phase, to_send, slab>>
      BY <1>14, <2>2, <2>6 DEF TakeOutMessage
    <3>2. inbox' \in [Connections -> Seq(Response)]
      BY <2>4, <3>1 DEF TypeInv
    <3> QED BY <2>1, <3>1, <3>2 DEF TypeInv
  <2>7. CASE ~Close(c) /\ m.kind = "scrape"
    <3>1. PICK entry, now : /\ entry = slab[c][m.id]
                            /\ now = [entry EXCEPT !.pending = @ - 1, !.files = @ \cup m.files]
      OBVIOUS
    <3>2. /\ entry # Absent
          /\ slab' = [slab EXCEPT ![c][m.id] = IF Complete(now) THEN Absent ELSE now]
          /\ inbox' = [inbox EXCEPT ![c] = Tail(@)] /\ UNCHANGED <<phase, to_send>>
      BY <1>14, <2>2, <2>7, <3>1 DEF TakeOutMessage
    <3>3. m.id \in PendingScrapeIds /\ m.files \in SUBSET InfoHashes
      BY <2>4, <2>7 DEF Response
    <3>4. entry \in PendingScrapeResponse
      BY <3>1, <3>2, <3>3 DEF TypeInv, Slab
    <3>5. now \in PendingScrapeResponse
      BY <3>1, <3>3, <3>4, CountedDown
    <3>6. PICK e \in PendingScrapeResponse \cup {Absent} : slab' = [slab EXCEPT ![c][m.id] = e]
      BY <3>2, <3>5
    <3>7. slab' \in [Connections -> Slab]
      BY <3>3, <3>6 DEF TypeInv, Slab
    <3>8. inbox' \in [Connections -> Seq(Response)]
      BY <2>4, <3>2 DEF TypeInv
    <3> QED BY <2>1, <3>2, <3>7, <3>8 DEF TypeInv
  <2> QED BY <2>5, <2>6, <2>7
<1>15. ASSUME NEW c \in Connections, Written(c) PROVE TypeInv'
  BY <1>15 DEF Written, TypeInv
<1> QED BY <1>1, <1>2, <1>3, <1>4, <1>5, <1>6, <1>7, <1>8, <1>9, <1>10, <1>11, <1>12, <1>13,
           <1>14, <1>15 DEF Next, TaskStep, PeerStep, WorkerStep

LEMMA TypeInit == Init => TypeInv
<1> SUFFICES ASSUME Init PROVE TypeInv
  OBVIOUS
<1> QED BY DEF Init, TypeInv, Slab

\* The channels, the slab and the control state of every connection keep their
\* types, although the slab's ids are reused and dropped entries' parts are
\* still on their way.
THEOREM WsConnectionTypes == Spec => []TypeInv
BY TypeInit, TypeStep, PTL DEF Spec

----------------------------------------------------------------------------
(***************************************************************************)
(* Sequences with one message of a kind at most                            *)
(***************************************************************************)
LEMMA TailHas ==
  ASSUME NEW T, NEW q \in Seq(T), q # <<>>, NEW S
  PROVE  /\ Has(Tail(q), S) => Has(q, S)
         /\ One(q, S) => One(Tail(q), S)
         /\ One(q, S) /\ q[1] \in S => ~Has(Tail(q), S)
         /\ q[1] \in S => Has(q, S)
<1> DEFINE t == Tail(q)
           n == Len(q)
<1>1. n \in Nat /\ n >= 1 /\ DOMAIN q = 1 .. n
  OBVIOUS
<1>2. DOMAIN t = 1 .. n - 1 /\ \A k \in 1 .. n - 1 : t[k] = q[k + 1]
  OBVIOUS
<1> HIDE DEF n, t
<1>3. \A k \in DOMAIN t : k \in Nat /\ k >= 1 /\ k + 1 \in DOMAIN q /\ t[k] = q[k + 1]
  BY <1>1, <1>2
<1>4. 1 \in DOMAIN q
  BY <1>1
<1>5. Has(t, S) => Has(q, S)
  BY <1>3 DEF Has
<1>6. One(q, S) => One(t, S)
  <2> SUFFICES ASSUME One(q, S), NEW j \in DOMAIN t, NEW k \in DOMAIN t, t[j] \in S, t[k] \in S
               PROVE  j = k
    BY DEF One
  <2>1. j + 1 = k + 1
    BY <1>3 DEF One
  <2> QED BY <1>3, <2>1
<1>7. One(q, S) /\ q[1] \in S => ~Has(t, S)
  <2> SUFFICES ASSUME One(q, S), q[1] \in S, NEW k \in DOMAIN t, t[k] \in S PROVE FALSE
    BY DEF Has
  <2>1. k + 1 = 1
    BY <1>3, <1>4 DEF One
  <2> QED BY <1>3, <2>1
<1> QED BY <1>4, <1>5, <1>6, <1>7 DEF Has, t

LEMMA AppendHas ==
  ASSUME NEW T, NEW q \in Seq(T), NEW x \in T, NEW S
  PROVE  /\ Has(Append(q, x), S) => Has(q, S) \/ x \in S
         /\ One(q, S) /\ ~(x \in S /\ Has(q, S)) => One(Append(q, x), S)
<1> DEFINE t == Append(q, x)
           n == Len(q)
<1>1. n \in Nat /\ DOMAIN q = 1 .. n
  OBVIOUS
<1>2. DOMAIN t = 1 .. n + 1 /\ t[n + 1] = x /\ \A k \in 1 .. n : t[k] = q[k]
  OBVIOUS
<1> HIDE DEF n, t
<1>3. \A k \in DOMAIN t : (k \in DOMAIN q /\ t[k] = q[k]) \/ (k = n + 1 /\ t[k] = x)
  BY <1>1, <1>2
<1> QED BY <1>3 DEF Has, One, t

\* q2 has none of the messages S that q has not, and none twice.
Fewer(q2, q, S) == (One(q, S) => One(q2, S)) /\ \A U \in SUBSET S : Has(q2, U) => Has(q, U)

LEMMA FewerSame ==
  ASSUME NEW q, NEW S
  PROVE  Fewer(q, q, S) /\ Fewer(<<>>, q, S)
BY DEF Fewer, Has, One

LEMMA FewerTail ==
  ASSUME NEW T, NEW q \in Seq(T), q # <<>>, NEW S
  PROVE  Fewer(Tail(q), q, S)
BY TailHas DEF Fewer

LEMMA FewerAppend ==
  ASSUME NEW T, NEW q \in Seq(T), NEW x \in T, NEW S, x \notin S
  PROVE  Fewer(Append(q, x), q, S)
<1>1. \A U \in SUBSET S : Has(Append(q, x), U) => Has(q, U)
  BY AppendHas
<1>2. One(q, S) => One(Append(q, x), S)
  BY AppendHas
<1> QED BY <1>1, <1>2 DEF Fewer

\* Nothing is added anywhere.
LEMMA OnceFewer ==
  ASSUME NEW ts, NEW q, NEW o, NEW ib, NEW ts2, NEW q2, NEW o2, NEW ib2, NEW P, NEW I, NEW R,
         Once(ts, q, o, ib, P, I, R), Fewer(ts2, ts, P), Fewer(q2, q, I), Fewer(ib2, ib, R),
         o2 \cap R \subseteq o
  PROVE  /\ Once(ts2, q2, o2, ib2, P, I, R)
         /\ \A i : Somewhere(ts2, q2, o2, ib2, P, I, R, i) => Somewhere(ts, q, o, ib, P, I, R, i)
<1>1. /\ Has(ts2, P) => Has(ts, P)
      /\ Has(q2, I) => Has(q, I)
      /\ Has(ib2, R) => Has(ib, R)
  BY DEF Fewer
<1>2. Once(ts2, q2, o2, ib2, P, I, R)
  BY <1>1 DEF Once, Fewer
<1>3. ASSUME NEW i, Somewhere(ts2, q2, o2, ib2, P, I, R, i)
      PROVE  Somewhere(ts, q, o, ib, P, I, R, i)
  <2>1. /\ {p \in P : p.id = i} \in SUBSET P
        /\ {m \in I : m.part.id = i} \in SUBSET I
        /\ {m \in R : m.id = i} \in SUBSET R
    OBVIOUS
  <2>2. /\ Has(ts2, {p \in P : p.id = i}) => Has(ts, {p \in P : p.id = i})
        /\ Has(q2, {m \in I : m.part.id = i}) => Has(q, {m \in I : m.part.id = i})
        /\ Has(ib2, {m \in R : m.id = i}) => Has(ib, {m \in R : m.id = i})
    BY <2>1 DEF Fewer
  <2>3. o2 \cap {m \in R : m.id = i} # {} => o \cap {m \in R : m.id = i} # {}
    OBVIOUS
  <2> QED BY <1>3, <2>2, <2>3 DEF Somewhere
<1> QED BY <1>2, <1>3

\* The reader's first part goes into a request channel.
LEMMA OnceSent ==
  ASSUME NEW ts \in Seq(Part), ts # <<>>, NEW q \in Seq(InMessage), NEW o, NEW ib,
         NEW P, NEW I, NEW R, Once(ts, q, o, ib, P, I, R),
         NEW x \in InMessage, x.part = ts[1], x \in I => ts[1] \in P
  PROVE  /\ Once(Tail(ts), Append(q, x), o, ib, P, I, R)
         /\ \A i : Somewhere(Tail(ts), Append(q, x), o, ib, P, I, R, i) =>
                   Somewhere(ts, q, o, ib, P, I, R, i)
<1>1. /\ Has(Tail(ts), P) => Has(ts, P)
      /\ One(ts, P) => One(Tail(ts), P)
      /\ One(ts, P) /\ ts[1] \in P => ~Has(Tail(ts), P)
      /\ ts[1] \in P => Has(ts, P)
  BY TailHas
<1>2. /\ Has(Append(q, x), I) => Has(q, I) \/ x \in I
      /\ One(q, I) /\ ~(x \in I /\ Has(q, I)) => One(Append(q, x), I)
  BY AppendHas
<1>3. Once(Tail(ts), Append(q, x), o, ib, P, I, R)
  BY <1>1, <1>2 DEF Once
<1>4. ASSUME NEW i, Somewhere(Tail(ts), Append(q, x), o, ib, P, I, R, i)
      PROVE  Somewhere(ts, q, o, ib, P, I, R, i)
  <2>1. Has(Tail(ts), {p \in P : p.id = i}) => Has(ts, {p \in P : p.id = i})
    BY TailHas
  <2>2. Has(Append(q, x), {m \in I : m.part.id = i}) =>
           Has(q, {m \in I : m.part.id = i}) \/ x \in {m \in I : m.part.id = i}
    BY AppendHas
  <2>3. x \in {m \in I : m.part.id = i} => ts[1] \in {p \in P : p.id = i}
    OBVIOUS
  <2>4. ts[1] \in {p \in P : p.id = i} => Has(ts, {p \in P : p.id = i})
    BY TailHas
  <2> QED BY <1>4, <2>1, <2>2, <2>3, <2>4 DEF Somewhere
<1> QED BY <1>3, <1>4

\* A swarm worker answers the first request of its channel.
LEMMA OnceHandled ==
  ASSUME NEW ts, NEW q \in Seq(InMessage), q # <<>>, NEW o, NEW ib,
         NEW P, NEW I, NEW R, Once(ts, q, o, ib, P, I, R),
         NEW r, r \in R => q[1] \in I /\ r.id = q[1].part.id
  PROVE  /\ Once(ts, Tail(q), o \cup {r}, ib, P, I, R)
         /\ \A i : Somewhere(ts, Tail(q), o \cup {r}, ib, P, I, R, i) =>
                   Somewhere(ts, q, o, ib, P, I, R, i)
<1>1. /\ Has(Tail(q), I) => Has(q, I)
      /\ One(q, I) => One(Tail(q), I)
      /\ One(q, I) /\ q[1] \in I => ~Has(Tail(q), I)
      /\ q[1] \in I => Has(q, I)
  BY TailHas
<1>2. Once(ts, Tail(q), o \cup {r}, ib, P, I, R)
  <2>1. CASE r \in R
    <3>1. Has(q, I) /\ ~Has(Tail(q), I)
      BY <1>1, <2>1 DEF Once
    <3>2. o \cap R = {} /\ (o \cup {r}) \cap R = {r} /\ ~Has(ts, P) /\ ~Has(ib, R)
      BY <2>1, <3>1 DEF Once
    <3> QED BY <1>1, <3>1, <3>2 DEF Once
  <2>2. CASE r \notin R
    <3>1. (o \cup {r}) \cap R = o \cap R
      BY <2>2
    <3> QED BY <1>1, <3>1 DEF Once
  <2> QED BY <2>1, <2>2
<1>3. ASSUME NEW i, Somewhere(ts, Tail(q), o \cup {r}, ib, P, I, R, i)
      PROVE  Somewhere(ts, q, o, ib, P, I, R, i)
  <2>1. Has(Tail(q), {m \in I : m.part.id = i}) => Has(q, {m \in I : m.part.id = i})
    BY TailHas
  <2>2. (o \cup {r}) \cap {m \in R : m.id = i} # {} =>
           o \cap {m \in R : m.id = i} # {} \/ (r \in R /\ r.id = i)
    OBVIOUS
  <2>3. r \in R /\ r.id = i => q[1] \in {m \in I : m.part.id = i}
    OBVIOUS
  <2>4. q[1] \in {m \in I : m.part.id = i} => Has(q, {m \in I : m.part.id = i})
    BY TailHas
  <2> QED BY <1>3, <2>1, <2>2, <2>3, <2>4 DEF Somewhere
<1> QED BY <1>2, <1>3

\* The socket worker puts a response into the local channel of its connection.
LEMMA OnceReceived ==
  ASSUME NEW ts, NEW q, NEW o, NEW ib \in Seq(Response),
         NEW P, NEW I, NEW R, Once(ts, q, o, ib, P, I, R), NEW m \in Response, m \in o
  PROVE  /\ Once(ts, q, o \ {m}, Append(ib, m), P, I, R)
         /\ \A i : Somewhere(ts, q, o \ {m}, Append(ib, m), P, I, R, i) =>
                   Somewhere(ts, q, o, ib, P, I, R, i)
<1>1. /\ Has(Append(ib, m), R) => Has(ib, R) \/ m \in R
      /\ One(ib, R) /\ ~(m \in R /\ Has(ib, R)) => One(Append(ib, m), R)
  BY AppendHas
<1>2. Once(ts, q, o \ {m}, Append(ib, m), P, I, R)
  <2>1. m \in R => (o \ {m}) \cap R = {} /\ o \cap R # {}
    BY DEF Once
  <2>2. (o \ {m}) \cap R \subseteq o \cap R
    OBVIOUS
  <2> QED BY <1>1, <2>1, <2>2 DEF Once
<1>3. ASSUME NEW i, Somewhere(ts, q, o \ {m}, Append(ib, m), P, I, R, i)
      PROVE  Somewhere(ts, q, o, ib, P, I, R, i)
  <2>1. Has(Append(ib, m), {x \in R : x.id = i}) =>
           Has(ib, {x \in R : x.id = i}) \/ m \in {x \in R : x.id = i}
    BY AppendHas
  <2>2. m \in {x \in R : x.id = i} => o \cap {x \in R : x.id = i} # {}
    OBVIOUS
  <2>3. (o \ {m}) \cap {x \in R : x.id = i} # {} => o \cap {x \in R : x.id = i} # {}
    OBVIOUS
  <2> QED BY <1>3, <2>1, <2>2, <2>3 DEF Somewhere
<1> QED BY <1>2, <1>3

\* The writer takes a response: there is no second one.
LEMMA OnceTaken ==
  ASSUME NEW ts, NEW q, NEW o, NEW ib \in Seq(Response), ib # <<>>,
         NEW P, NEW I, NEW R, Once(ts, q, o, ib, P, I, R), ib[1] \in R
  PROVE  \A i : ~Somewhere(ts, q, o, Tail(ib), P, I, R, i)
<1>1. ~Has(Tail(ib), R) /\ Has(ib, R)
  BY TailHas DEF Once
<1>2. ~Has(ts, P) /\ ~Has(q, I) /\ o \cap R = {}
  BY <1>1 DEF Once
<1> QED BY <1>1, <1>2 DEF Somewhere, Has

----------------------------------------------------------------------------
(***************************************************************************)
(* Scrapes                                                                 *)
(***************************************************************************)
LEMMA KeysFinite == IsFiniteSet(Key)
<1> DEFINE f == [x \in Workers \X PendingScrapeIds |-> [worker |-> x[1], id |-> x[2]]]
<1>1. IsFiniteSet(Workers \X PendingScrapeIds)
  BY WsConnectionAssumption, FS_Product
<1>2. f \in [Workers \X PendingScrapeIds -> Key]
  BY DEF Key
<1>3. ASSUME NEW r \in Key PROVE \E x \in Workers \X PendingScrapeIds : f[x] = r
  <2>1. <<r.worker, r.id>> \in Workers \X PendingScrapeIds /\ r = [worker |-> r.worker, id |-> r.id]
    BY DEF Key
  <2> QED BY <2>1
<1>4. f \in Surjection(Workers \X PendingScrapeIds, Key)
  BY <1>2, <1>3 DEF Surjection
<1> HIDE DEF f
<1> QED BY <1>1, <1>4, FS_Surjection

LEMMA WayFinite ==
  ASSUME NEW S \in SUBSET Key
  PROVE  IsFiniteSet(S) /\ Cardinality(S) \in Nat
BY KeysFinite, FS_Subset, FS_CardinalityType

\* From ts, ch, o, ib to ts2, ch2, o2, ib2 parts of c at most move or get lost.
Moved(c, ts2, ch2, o2, ib2, ts, ch, o, ib) ==
    \A n \in Nat, w \in Workers :
        /\ Once(ts2, ch2[w], o2, ib2, PartOf(n, w), RequestOf(c, n, w), ResponseOf(c, n, w))
        /\ \A i : Somewhere(ts2, ch2[w], o2, ib2, PartOf(n, w), RequestOf(c, n, w),
                            ResponseOf(c, n, w), i) =>
                  Somewhere(ts, ch[w], o, ib, PartOf(n, w), RequestOf(c, n, w),
                            ResponseOf(c, n, w), i)

LEMMA MovedOk ==
  ASSUME NEW c, NEW ts, NEW ch, NEW o, NEW ib, NEW ts2, NEW ch2, NEW o2, NEW ib2,
         Moved(c, ts2, ch2, o2, ib2, ts, ch, o, ib)
  PROVE  /\ OnceOk(c, ts2, ch2, o2, ib2)
         /\ \A n \in Nat : Way(c, n, ts2, ch2, o2, ib2) \subseteq Way(c, n, ts, ch, o, ib)
<1>1. OnceOk(c, ts2, ch2, o2, ib2)
  BY DEF OnceOk, Moved
<1>2. ASSUME NEW n \in Nat, NEW r \in Way(c, n, ts2, ch2, o2, ib2)
      PROVE  r \in Way(c, n, ts, ch, o, ib)
  <2>1. r \in Key /\ r.worker \in Workers
    BY <1>2 DEF Way, Key
  <2> QED BY <1>2, <2>1 DEF Way, Moved
<1> QED BY <1>1, <1>2

LEMMA SlabFewer ==
  ASSUME NEW c, NEW ts, NEW ch, NEW o, NEW ib, NEW ts2, NEW ch2, NEW o2, NEW ib2,
         NEW sl \in Slab, NEW s \in Nat, NEW s2 \in Nat, s <= s2,
         SlabOk(c, ts, ch, o, ib, sl, s),
         \A n \in Nat : Way(c, n, ts2, ch2, o2, ib2) \subseteq Way(c, n, ts, ch, o, ib)
  PROVE  SlabOk(c, ts2, ch2, o2, ib2, sl, s2)
<1>1. ASSUME NEW i \in PendingScrapeIds, sl[i] # Absent PROVE sl[i].number <= s2
  <2>1. sl[i].number \in Nat /\ sl[i].number <= s
    BY <1>1 DEF SlabOk, Slab, PendingScrapeResponse
  <2> QED BY <2>1
<1>2. ASSUME NEW n \in Nat, NEW r \in Way(c, n, ts2, ch2, o2, ib2)
      PROVE  /\ sl[r.id] # Absent /\ sl[r.id].number = n
             /\ sl[r.id].pending >= Cardinality(Way(c, n, ts2, ch2, o2, ib2))
  <2>1. r \in Way(c, n, ts, ch, o, ib) /\ r.id \in PendingScrapeIds
    BY <1>2 DEF Way, Key
  <2>2. /\ sl[r.id] # Absent /\ sl[r.id].number = n
        /\ sl[r.id].pending >= Cardinality(Way(c, n, ts, ch, o, ib))
    BY <2>1 DEF SlabOk
  <2>3. sl[r.id].pending \in Int
    BY <2>1, <2>2 DEF Slab, PendingScrapeResponse
  <2>4. /\ Way(c, n, ts, ch, o, ib) \in SUBSET Key
        /\ Way(c, n, ts2, ch2, o2, ib2) \in SUBSET Way(c, n, ts, ch, o, ib)
    BY DEF Way
  <2>5. /\ Cardinality(Way(c, n, ts, ch, o, ib)) \in Nat
        /\ Cardinality(Way(c, n, ts2, ch2, o2, ib2)) \in Nat
        /\ Cardinality(Way(c, n, ts2, ch2, o2, ib2)) <= Cardinality(Way(c, n, ts, ch, o, ib))
    BY <2>4, WayFinite, FS_Subset, FS_CardinalityType
  <2> QED BY <2>2, <2>3, <2>5
<1> QED BY <1>1, <1>2 DEF SlabOk

\* Nothing of c changes.
LEMMA MovedSame ==
  ASSUME NEW c, NEW ts, NEW ch, NEW o, NEW ib, OnceOk(c, ts, ch, o, ib)
  PROVE  Moved(c, ts, ch, o, ib, ts, ch, o, ib)
BY DEF Moved, OnceOk

\* The task of c ends: what it holds is dropped.
LEMMA MovedClosed ==
  ASSUME NEW c, NEW ts, NEW ch, NEW o, NEW ib, OnceOk(c, ts, ch, o, ib)
  PROVE  Moved(c, <<>>, ch, o, <<>>, ts, ch, o, ib)
<1> SUFFICES ASSUME NEW n \in Nat, NEW w \in Workers
             PROVE  /\ Once(<<>>, ch[w], o, <<>>, PartOf(n, w), RequestOf(c, n, w),
                            ResponseOf(c, n, w))
                    /\ \A i : Somewhere(<<>>, ch[w], o, <<>>, PartOf(n, w), RequestOf(c, n, w),
                                        ResponseOf(c, n, w), i) =>
                              Somewhere(ts, ch[w], o, ib, PartOf(n, w), RequestOf(c, n, w),
                                        ResponseOf(c, n, w), i)
  BY DEF Moved
<1>1. Once(ts, ch[w], o, ib, PartOf(n, w), RequestOf(c, n, w), ResponseOf(c, n, w))
  BY DEF OnceOk
<1>2. /\ Fewer(<<>>, ts, PartOf(n, w)) /\ Fewer(<<>>, ib, ResponseOf(c, n, w))
      /\ Fewer(ch[w], ch[w], RequestOf(c, n, w))
  BY FewerSame
<1> QED BY <1>1, <1>2, OnceFewer

\* A step that moves and loses parts of c, and keeps its slab unless c ends.
LEMMA KeptFor ==
  ASSUME TypeInv, TypeInv', ScrapeInv, NEW c \in Connections,
         Moved(c, to_send'[c], in_channel', out', inbox'[c],
               to_send[c], in_channel, out, inbox[c]),
         Ended(c)' \/ (~Ended(c) /\ slab'[c] = slab[c] /\ sent[c] <= sent'[c])
  PROVE  /\ OnceOk(c, to_send'[c], in_channel', out', inbox'[c])
         /\ Ended(c)' \/ SlabOk(c, to_send'[c], in_channel', out', inbox'[c], slab'[c], sent'[c])
<1>1. OnceOk(c, to_send'[c], in_channel', out', inbox'[c])
  BY MovedOk
<1>2. ASSUME ~Ended(c)'
      PROVE  SlabOk(c, to_send'[c], in_channel', out', inbox'[c], slab'[c], sent'[c])
  <2>1. ~Ended(c) /\ slab'[c] = slab[c] /\ sent[c] <= sent'[c]
    BY <1>2
  <2>2. SlabOk(c, to_send[c], in_channel, out, inbox[c], slab[c], sent[c])
    BY <2>1 DEF ScrapeInv
  <2>3. \A n \in Nat : Way(c, n, to_send'[c], in_channel', out', inbox'[c]) \subseteq
                       Way(c, n, to_send[c], in_channel, out, inbox[c])
    BY MovedOk
  <2>4. slab[c] \in Slab /\ sent[c] \in Nat /\ sent'[c] \in Nat
    BY DEF TypeInv
  <2>5. SlabOk(c, to_send'[c], in_channel', out', inbox'[c], slab[c], sent'[c])
    BY <2>1, <2>2, <2>3, <2>4, SlabFewer
  <2> QED BY <2>1, <2>5
<1> QED BY <1>1, <1>2

LEMMA ScrapeKept ==
  ASSUME TypeInv, TypeInv', ScrapeInv, RightPlace',
         \A c \in Connections :
            /\ Moved(c, to_send'[c], in_channel', out', inbox'[c],
                     to_send[c], in_channel, out, inbox[c])
            /\ Ended(c)' \/ (~Ended(c) /\ slab'[c] = slab[c] /\ sent[c] <= sent'[c])
  PROVE  ScrapeInv'
<1>1. ASSUME NEW c \in Connections
      PROVE  /\ OnceOk(c, to_send'[c], in_channel', out', inbox'[c])
             /\ \/ Ended(c)'
                \/ SlabOk(c, to_send'[c], in_channel', out', inbox'[c], slab'[c], sent'[c])
  BY KeptFor
<1> QED BY <1>1 DEF ScrapeInv

\* A step that also changes the slab of c.
LEMMA KeptBut ==
  ASSUME TypeInv, TypeInv', ScrapeInv, RightPlace', NEW c \in Connections,
         OnceOk(c, to_send'[c], in_channel', out', inbox'[c]),
         SlabOk(c, to_send'[c], in_channel', out', inbox'[c], slab'[c], sent'[c]),
         \A d \in Connections : d # c =>
            /\ Moved(d, to_send'[d], in_channel', out', inbox'[d],
                     to_send[d], in_channel, out, inbox[d])
            /\ Ended(d)' \/ (~Ended(d) /\ slab'[d] = slab[d] /\ sent[d] <= sent'[d])
  PROVE  ScrapeInv'
<1>1. ASSUME NEW d \in Connections
      PROVE  /\ OnceOk(d, to_send'[d], in_channel', out', inbox'[d])
             /\ \/ Ended(d)'
                \/ SlabOk(d, to_send'[d], in_channel', out', inbox'[d], slab'[d], sent'[d])
  BY KeptFor
<1> QED BY <1>1 DEF ScrapeInv

\* Nothing is sent, received or collected.
LEMMA ScrapeSame ==
  ASSUME TypeInv, TypeInv', ScrapeInv, UNCHANGED <<to_send, in_channel, out, inbox, slab>>,
         \A c \in Connections : sent[c] <= sent'[c],
         \A c \in Connections : Ended(c) => Ended(c)'
  PROVE  ScrapeInv'
<1>1. RightPlace'
  BY DEF ScrapeInv, RightPlace
<1>2. ASSUME NEW c \in Connections
      PROVE  Moved(c, to_send'[c], in_channel', out', inbox'[c],
                   to_send[c], in_channel, out, inbox[c])
  BY MovedSame DEF ScrapeInv
<1> QED BY <1>1, <1>2, ScrapeKept

\* A task ends.
LEMMA ScrapeClosed ==
  ASSUME TypeInv, TypeInv', ScrapeInv, NEW c \in Connections, Close(c),
         UNCHANGED <<in_channel, out>>, \A d \in Connections : sent[d] <= sent'[d]
  PROVE  ScrapeInv'
<1>1. /\ to_send' = [to_send EXCEPT ![c] = <<>>]
      /\ slab' = [slab EXCEPT ![c] = [i \in PendingScrapeIds |-> Absent]]
      /\ inbox' = [inbox EXCEPT ![c] = <<>>]
      /\ phase' = [phase EXCEPT ![c] = "closing"]
  BY DEF Close
<1>2. RightPlace'
  BY <1>1 DEF ScrapeInv, RightPlace, TypeInv
<1>3. ASSUME NEW d \in Connections
      PROVE  /\ Moved(d, to_send'[d], in_channel', out', inbox'[d],
                      to_send[d], in_channel, out, inbox[d])
             /\ Ended(d)' \/ (~Ended(d) /\ slab'[d] = slab[d])
  <2>1. OnceOk(d, to_send[d], in_channel, out, inbox[d])
    BY DEF ScrapeInv
  <2>2. CASE d = c
    <3>1. to_send'[d] = <<>> /\ inbox'[d] = <<>> /\ Ended(d)'
      BY <1>1, <2>2 DEF TypeInv, Ended
    <3> QED BY <2>1, <3>1, MovedClosed
  <2>3. CASE d # c
    <3>1. /\ to_send'[d] = to_send[d] /\ inbox'[d] = inbox[d] /\ slab'[d] = slab[d]
          /\ Ended(d)' = Ended(d)
      BY <1>1, <2>3 DEF TypeInv, Ended
    <3>2. Moved(d, to_send'[d], in_channel', out', inbox'[d],
                to_send[d], in_channel, out, inbox[d])
      BY <2>1, <3>1, MovedSame
    <3> QED BY <3>1, <3>2
  <2> QED BY <2>2, <2>3
<1> QED BY <1>2, <1>3, ScrapeKept

----------------------------------------------------------------------------
(***************************************************************************)
(* Messages on their way                                                   *)
(***************************************************************************)
\* Nothing is added to what c has on its way.
LEMMA MovedFewer ==
  ASSUME NEW c, NEW ts, NEW ch, NEW o, NEW ib, NEW ts2, NEW ch2, NEW o2, NEW ib2,
         OnceOk(c, ts, ch, o, ib),
         \A n \in Nat, w \in Workers :
            /\ Fewer(ts2, ts, PartOf(n, w)) /\ Fewer(ch2[w], ch[w], RequestOf(c, n, w))
            /\ Fewer(ib2, ib, ResponseOf(c, n, w)) /\ o2 \cap ResponseOf(c, n, w) \subseteq o
  PROVE  Moved(c, ts2, ch2, o2, ib2, ts, ch, o, ib)
<1> SUFFICES ASSUME NEW n \in Nat, NEW w \in Workers
             PROVE  /\ Once(ts2, ch2[w], o2, ib2, PartOf(n, w), RequestOf(c, n, w),
                            ResponseOf(c, n, w))
                    /\ \A i : Somewhere(ts2, ch2[w], o2, ib2, PartOf(n, w), RequestOf(c, n, w),
                                        ResponseOf(c, n, w), i) =>
                              Somewhere(ts, ch[w], o, ib, PartOf(n, w), RequestOf(c, n, w),
                                        ResponseOf(c, n, w), i)
  BY DEF Moved
<1>1. Once(ts, ch[w], o, ib, PartOf(n, w), RequestOf(c, n, w), ResponseOf(c, n, w))
  BY DEF OnceOk
<1> QED BY <1>1, OnceFewer

\* The reader of c sends its first part.
LEMMA MovedSent ==
  ASSUME NEW c \in Connections, NEW ts \in Seq(Part), NEW ch \in [Workers -> Seq(InMessage)],
         NEW o, NEW ib, OnceOk(c, ts, ch, o, ib), ts # <<>>, NEW p \in Part, p = ts[1],
         NEW ch2, ch2 = [ch EXCEPT ![p.worker] = Append(@, [conn |-> c, part |-> p])]
  PROVE  Moved(c, Tail(ts), ch2, o, ib, ts, ch, o, ib)
<1> DEFINE x == [conn |-> c, part |-> p]
<1> SUFFICES ASSUME NEW n \in Nat, NEW w \in Workers
             PROVE  /\ Once(Tail(ts), ch2[w], o, ib, PartOf(n, w), RequestOf(c, n, w),
                            ResponseOf(c, n, w))
                    /\ \A i : Somewhere(Tail(ts), ch2[w], o, ib, PartOf(n, w), RequestOf(c, n, w),
                                        ResponseOf(c, n, w), i) =>
                              Somewhere(ts, ch[w], o, ib, PartOf(n, w), RequestOf(c, n, w),
                                        ResponseOf(c, n, w), i)
  BY DEF Moved
<1>1. Once(ts, ch[w], o, ib, PartOf(n, w), RequestOf(c, n, w), ResponseOf(c, n, w))
  BY DEF OnceOk
<1>2. x \in InMessage /\ x.part = ts[1] /\ (x \in RequestOf(c, n, w) => ts[1] \in PartOf(n, w))
  BY MessageTypes DEF RequestOf
<1>3. CASE w = p.worker
  <2>1. ch2[w] = Append(ch[w], x) /\ ch[w] \in Seq(InMessage)
    BY <1>3
  <2> HIDE DEF x
  <2> QED BY <1>1, <1>2, <2>1, OnceSent
<1>4. CASE w # p.worker
  <2>1. ch2[w] = ch[w]
    BY <1>4
  <2>2. /\ Fewer(Tail(ts), ts, PartOf(n, w)) /\ Fewer(ch[w], ch[w], RequestOf(c, n, w))
        /\ Fewer(ib, ib, ResponseOf(c, n, w)) /\ o \cap ResponseOf(c, n, w) \subseteq o
    BY FewerTail, FewerSame
  <2> QED BY <1>1, <2>1, <2>2, OnceFewer
<1> QED BY <1>3, <1>4

\* Another reader sends a part.
LEMMA MovedSentOther ==
  ASSUME NEW c \in Connections, NEW d \in Connections, c # d, NEW ts,
         NEW ch \in [Workers -> Seq(InMessage)], NEW o, NEW ib, OnceOk(d, ts, ch, o, ib),
         NEW p \in Part,
         NEW ch2, ch2 = [ch EXCEPT ![p.worker] = Append(@, [conn |-> c, part |-> p])]
  PROVE  Moved(d, ts, ch2, o, ib, ts, ch, o, ib)
<1> DEFINE x == [conn |-> c, part |-> p]
<1>1. x \in InMessage
  BY MessageTypes
<1>2. ASSUME NEW n \in Nat, NEW w \in Workers
      PROVE  Fewer(ch2[w], ch[w], RequestOf(d, n, w))
  <2>1. x \notin RequestOf(d, n, w) /\ ch[w] \in Seq(InMessage)
    BY DEF RequestOf
  <2>2. ch2[w] = Append(ch[w], x) \/ ch2[w] = ch[w]
    OBVIOUS
  <2> HIDE DEF x
  <2> QED BY <1>1, <2>1, <2>2, FewerAppend, FewerSame
<1>3. ASSUME NEW n \in Nat, NEW w \in Workers
      PROVE  /\ Fewer(ts, ts, PartOf(n, w)) /\ Fewer(ib, ib, ResponseOf(d, n, w))
             /\ o \cap ResponseOf(d, n, w) \subseteq o
  BY FewerSame
<1> QED BY <1>2, <1>3, MovedFewer

\* Swarm worker v answers its first request, or drops it.
LEMMA MovedHandled ==
  ASSUME NEW c \in Connections, NEW ts, NEW ch \in [Workers -> Seq(InMessage)],
         NEW o, NEW ib, OnceOk(c, ts, ch, o, ib), NEW v \in Workers, ch[v] # <<>>,
         NEW m \in InMessage, m = ch[v][1], m.part.worker = v,
         NEW ch2, ch2 = [ch EXCEPT ![v] = Tail(@)],
         NEW o2, o2 = o \cup {OutMessage(m.conn, m.part.kind, m.part)} \/ o2 = o
  PROVE  Moved(c, ts, ch2, o2, ib, ts, ch, o, ib)
<1> DEFINE r == OutMessage(m.conn, m.part.kind, m.part)
<1>1. ASSUME NEW n \in Nat, NEW w \in Workers, r \in ResponseOf(c, n, w)
      PROVE  w = v /\ m \in RequestOf(c, n, w) /\ r.id = m.part.id
  BY <1>1 DEF ResponseOf, RequestOf, PartOf, OutMessage, InMessage
<1>2. \A w \in Workers : ch2[w] = IF w = v THEN Tail(ch[w]) ELSE ch[w]
  OBVIOUS
<1>3. ASSUME NEW n \in Nat, NEW w \in Workers
      PROVE  /\ Fewer(ts, ts, PartOf(n, w)) /\ Fewer(ch2[w], ch[w], RequestOf(c, n, w))
             /\ Fewer(ib, ib, ResponseOf(c, n, w)) /\ o \cap ResponseOf(c, n, w) \subseteq o
  <2>1. CASE w = v
    BY <1>2, <2>1, FewerTail, FewerSame
  <2>2. CASE w # v
    BY <1>2, <2>2, FewerSame
  <2> QED BY <2>1, <2>2
<1>4. CASE o2 = o
  BY <1>3, <1>4, MovedFewer
<1>5. CASE o2 = o \cup {r}
  <2> SUFFICES ASSUME NEW n \in Nat, NEW w \in Workers
               PROVE  /\ Once(ts, ch2[w], o2, ib, PartOf(n, w), RequestOf(c, n, w),
                              ResponseOf(c, n, w))
                      /\ \A i : Somewhere(ts, ch2[w], o2, ib, PartOf(n, w), RequestOf(c, n, w),
                                          ResponseOf(c, n, w), i) =>
                                Somewhere(ts, ch[w], o, ib, PartOf(n, w), RequestOf(c, n, w),
                                          ResponseOf(c, n, w), i)
    BY DEF Moved
  <2>1. Once(ts, ch[w], o, ib, PartOf(n, w), RequestOf(c, n, w), ResponseOf(c, n, w))
    BY DEF OnceOk
  <2>2. CASE w = v
    <3>1. ch2[w] = Tail(ch[w]) /\ ch[w] \in Seq(InMessage) /\ ch[w] # <<>> /\ ch[w][1] = m
      BY <1>2, <2>2
    <3>2. r \in ResponseOf(c, n, w) => ch[w][1] \in RequestOf(c, n, w) /\ r.id = ch[w][1].part.id
      BY <1>1, <3>1
    <3> HIDE DEF r
    <3>3. /\ Once(ts, Tail(ch[w]), o \cup {r}, ib, PartOf(n, w), RequestOf(c, n, w),
                  ResponseOf(c, n, w))
          /\ \A i : Somewhere(ts, Tail(ch[w]), o \cup {r}, ib, PartOf(n, w),
                              RequestOf(c, n, w), ResponseOf(c, n, w), i) =>
                    Somewhere(ts, ch[w], o, ib, PartOf(n, w), RequestOf(c, n, w),
                              ResponseOf(c, n, w), i)
      BY <2>1, <3>1, <3>2, OnceHandled
    <3> QED BY <1>5, <3>1, <3>3
  <2>3. CASE w # v
    <3>1. o2 \cap ResponseOf(c, n, w) \subseteq o
      BY <1>1, <1>5, <2>3
    <3> QED BY <1>3, <2>1, <3>1, OnceFewer
  <2> QED BY <2>2, <2>3
<1> QED BY <1>4, <1>5

\* A response m reaches c, or leaves the channel of responses.
LEMMA MovedReceived ==
  ASSUME NEW c \in Connections, NEW ts, NEW ch, NEW o, NEW ib \in Seq(Response),
         OnceOk(c, ts, ch, o, ib), NEW m \in Response, m \in o
  PROVE  /\ Moved(c, ts, ch, o \ {m}, Append(ib, m), ts, ch, o, ib)
         /\ Moved(c, ts, ch, o \ {m}, ib, ts, ch, o, ib)
<1>1. Moved(c, ts, ch, o \ {m}, Append(ib, m), ts, ch, o, ib)
  <2> SUFFICES ASSUME NEW n \in Nat, NEW w \in Workers
               PROVE  /\ Once(ts, ch[w], o \ {m}, Append(ib, m), PartOf(n, w), RequestOf(c, n, w),
                              ResponseOf(c, n, w))
                      /\ \A i : Somewhere(ts, ch[w], o \ {m}, Append(ib, m), PartOf(n, w),
                                          RequestOf(c, n, w), ResponseOf(c, n, w), i) =>
                                Somewhere(ts, ch[w], o, ib, PartOf(n, w), RequestOf(c, n, w),
                                          ResponseOf(c, n, w), i)
    BY DEF Moved
  <2>1. Once(ts, ch[w], o, ib, PartOf(n, w), RequestOf(c, n, w), ResponseOf(c, n, w))
    BY DEF OnceOk
  <2> QED BY <2>1, OnceReceived
<1>2. Moved(c, ts, ch, o \ {m}, ib, ts, ch, o, ib)
  <2>1. ASSUME NEW n \in Nat, NEW w \in Workers
        PROVE  /\ Fewer(ts, ts, PartOf(n, w)) /\ Fewer(ch[w], ch[w], RequestOf(c, n, w))
               /\ Fewer(ib, ib, ResponseOf(c, n, w))
               /\ (o \ {m}) \cap ResponseOf(c, n, w) \subseteq o
    BY FewerSame
  <2> QED BY <2>1, MovedFewer
<1> QED BY <1>1, <1>2

----------------------------------------------------------------------------
(***************************************************************************)
(* The slab                                                                *)
(***************************************************************************)
\* With no key on its way there is no message of the scrape anywhere.
LEMMA WayEmpty ==
  ASSUME NEW c, NEW n, NEW ts, NEW ch, NEW o, NEW ib, Way(c, n, ts, ch, o, ib) = {},
         NEW w \in Workers
  PROVE  /\ ~Has(ch[w], RequestOf(c, n, w)) /\ ~Has(ib, ResponseOf(c, n, w))
         /\ o \cap ResponseOf(c, n, w) = {}
<1>1. ASSUME NEW i \in PendingScrapeIds
      PROVE  ~Somewhere(ts, ch[w], o, ib, PartOf(n, w), RequestOf(c, n, w),
                        ResponseOf(c, n, w), i)
  <2>1. PICK r \in Key : r = [worker |-> w, id |-> i]
    BY DEF Key
  <2>2. r.worker = w /\ r.id = i /\ r \notin Way(c, n, ts, ch, o, ib)
    BY <2>1
  <2> QED BY <2>2 DEF Way
<1>2. /\ \A m \in RequestOf(c, n, w) : m.part.id \in PendingScrapeIds
      /\ \A m \in ResponseOf(c, n, w) : m.id \in PendingScrapeIds
  BY DEF RequestOf, ResponseOf, PartOf, Part, Response
<1>3. ASSUME Has(ch[w], RequestOf(c, n, w)) PROVE FALSE
  <2>1. PICK k \in DOMAIN ch[w] : ch[w][k] \in RequestOf(c, n, w)
    BY <1>3 DEF Has
  <2>2. Has(ch[w], {m \in RequestOf(c, n, w) : m.part.id = ch[w][k].part.id})
    BY <2>1 DEF Has
  <2> QED BY <1>1, <1>2, <2>1, <2>2 DEF Somewhere
<1>4. ASSUME Has(ib, ResponseOf(c, n, w)) PROVE FALSE
  <2>1. PICK k \in DOMAIN ib : ib[k] \in ResponseOf(c, n, w)
    BY <1>4 DEF Has
  <2>2. Has(ib, {m \in ResponseOf(c, n, w) : m.id = ib[k].id})
    BY <2>1 DEF Has
  <2> QED BY <1>1, <1>2, <2>1, <2>2 DEF Somewhere
<1>5. ASSUME NEW x \in o, x \in ResponseOf(c, n, w) PROVE FALSE
  <2>1. x \in o \cap {m \in ResponseOf(c, n, w) : m.id = x.id}
    BY <1>5
  <2> QED BY <1>1, <1>2, <1>5, <2>1 DEF Somewhere
<1> QED BY <1>3, <1>4, <1>5

LEMMA KeysLeft ==
  ASSUME NEW A \in SUBSET Key, NEW B \in SUBSET A
  PROVE  /\ Cardinality(A) \in Nat /\ Cardinality(B) \in Nat /\ Cardinality(B) <= Cardinality(A)
         /\ B # {} => Cardinality(B) >= 1
         /\ \A r \in A : r \notin B => Cardinality(B) <= Cardinality(A) - 1
<1>1. IsFiniteSet(A) /\ IsFiniteSet(B) /\ Cardinality(A) \in Nat /\ Cardinality(B) \in Nat
  BY WayFinite
<1>2. Cardinality(B) <= Cardinality(A)
  BY <1>1, FS_Subset
<1>3. B # {} => Cardinality(B) >= 1
  <2>1. B # {} => Cardinality(B) # 0
    BY <1>1, FS_EmptySet
  <2> QED BY <1>1, <2>1
<1>4. ASSUME NEW r \in A, r \notin B PROVE Cardinality(B) <= Cardinality(A) - 1
  <2>1. IsFiniteSet(A \ {r}) /\ Cardinality(A \ {r}) = Cardinality(A) - 1
    BY <1>1, FS_RemoveElement
  <2>2. B \in SUBSET (A \ {r})
    BY <1>4
  <2>3. Cardinality(B) <= Cardinality(A \ {r})
    BY <2>1, <2>2, FS_Subset
  <2> QED BY <2>1, <2>3
<1> QED BY <1>1, <1>2, <1>3, <1>4

\* The writer collects part m of a scrape: it finds the entry, counts it down,
\* and removes it only if nothing of it is left.
LEMMA SlabTaken ==
  ASSUME NEW c \in Connections, NEW ts, NEW ch, NEW o, NEW ib \in Seq(Response), ib # <<>>,
         OnceOk(c, ts, ch, o, ib), NEW sl \in Slab, NEW s \in Nat,
         SlabOk(c, ts, ch, o, ib, sl, s),
         NEW m \in Response, m = ib[1], m.to = c, m.kind = "scrape"
  PROVE  /\ sl[m.id] # Absent
         /\ \A e \in PendingScrapeResponse \cup {Absent} :
               /\ e # Absent => e.pending = sl[m.id].pending - 1 /\ e.number = sl[m.id].number
               /\ e = Absent => sl[m.id].pending - 1 = 0
               => SlabOk(c, ts, ch, o, Tail(ib), [sl EXCEPT ![m.id] = e], s)
<1> DEFINE r0 == [worker |-> m.worker, id |-> m.id]
           W(n) == Way(c, n, ts, ch, o, ib)
           W2(n) == Way(c, n, ts, ch, o, Tail(ib))
<1>1. /\ m.id \in PendingScrapeIds /\ m.worker \in Workers /\ m.number \in Nat
      /\ r0 \in Key /\ r0.worker = m.worker /\ r0.id = m.id
      /\ m \in ResponseOf(c, m.number, m.worker)
  BY DEF Response, Key, ResponseOf
<1>2. r0 \in W(m.number)
  <2>1. Has(ib, {x \in ResponseOf(c, m.number, m.worker) : x.id = m.id})
    BY <1>1, TailHas
  <2>2. Somewhere(ts, ch[m.worker], o, ib, PartOf(m.number, m.worker),
                  RequestOf(c, m.number, m.worker), ResponseOf(c, m.number, m.worker), m.id)
    BY <2>1 DEF Somewhere
  <2> QED BY <1>1, <2>2 DEF Way
<1>3. r0 \notin W2(m.number)
  <2>1. Once(ts, ch[m.worker], o, ib, PartOf(m.number, m.worker),
             RequestOf(c, m.number, m.worker), ResponseOf(c, m.number, m.worker))
    BY <1>1 DEF OnceOk
  <2>2. ~Somewhere(ts, ch[m.worker], o, Tail(ib), PartOf(m.number, m.worker),
                   RequestOf(c, m.number, m.worker), ResponseOf(c, m.number, m.worker), m.id)
    BY <1>1, <2>1, OnceTaken
  <2> QED BY <1>1, <2>2 DEF Way
<1>4. \A n \in Nat : W2(n) \subseteq W(n)
  <2>1. ASSUME NEW n \in Nat, NEW w \in Workers
        PROVE  /\ Fewer(ts, ts, PartOf(n, w)) /\ Fewer(ch[w], ch[w], RequestOf(c, n, w))
               /\ Fewer(Tail(ib), ib, ResponseOf(c, n, w))
               /\ o \cap ResponseOf(c, n, w) \subseteq o
    BY FewerSame, FewerTail
  <2>2. Moved(c, ts, ch, o, Tail(ib), ts, ch, o, ib)
    BY <2>1, MovedFewer
  <2> QED BY <2>2, MovedOk
<1>5. \A n \in Nat : W(n) \in SUBSET Key /\ \A r \in W(n) : r.id \in PendingScrapeIds
  BY DEF Way, Key
<1>6. /\ \A i \in PendingScrapeIds : sl[i] # Absent => sl[i].number <= s
      /\ \A n \in Nat : \A r \in W(n) : /\ sl[r.id] # Absent /\ sl[r.id].number = n
                                        /\ sl[r.id].pending >= Cardinality(W(n))
  BY DEF SlabOk
<1> HIDE DEF W, W2
<1>7. sl[m.id] # Absent /\ sl[m.id].number = m.number /\ sl[m.id].pending >= Cardinality(W(m.number))
  BY <1>1, <1>2, <1>6
<1>8. \A i \in PendingScrapeIds : sl[i] # Absent => sl[i].pending \in Int /\ sl[i].number \in Nat
  BY DEF Slab, PendingScrapeResponse
<1>9. ASSUME NEW n \in Nat
      PROVE  /\ Cardinality(W(n)) \in Nat /\ Cardinality(W2(n)) \in Nat
             /\ Cardinality(W2(n)) <= Cardinality(W(n))
             /\ W2(n) # {} => Cardinality(W2(n)) >= 1
  <2>1. W(n) \in SUBSET Key /\ W2(n) \in SUBSET W(n)
    BY <1>4, <1>5
  <2> QED BY <2>1, KeysLeft
<1>10. Cardinality(W2(m.number)) <= Cardinality(W(m.number)) - 1
  <2>1. W(m.number) \in SUBSET Key /\ W2(m.number) \in SUBSET W(m.number)
    BY <1>1, <1>4, <1>5
  <2> HIDE DEF r0
  <2> QED BY <1>2, <1>3, <2>1, KeysLeft
<1>11. ASSUME NEW e \in PendingScrapeResponse \cup {Absent},
              e # Absent => e.pending = sl[m.id].pending - 1 /\ e.number = sl[m.id].number,
              e = Absent => sl[m.id].pending - 1 = 0
       PROVE  SlabOk(c, ts, ch, o, Tail(ib), [sl EXCEPT ![m.id] = e], s)
  <2> DEFINE sl2 == [sl EXCEPT ![m.id] = e]
  <2>1. \A i \in PendingScrapeIds : sl2[i] = IF i = m.id THEN e ELSE sl[i]
    BY <1>1 DEF Slab
  <2> HIDE DEF sl2
  <2>2. ASSUME NEW i \in PendingScrapeIds, sl2[i] # Absent PROVE sl2[i].number <= s
    BY <1>6, <1>7, <1>11, <2>1, <2>2
  <2>3. ASSUME NEW n \in Nat, NEW r \in W2(n)
        PROVE  /\ sl2[r.id] # Absent /\ sl2[r.id].number = n
               /\ sl2[r.id].pending >= Cardinality(W2(n))
    <3>1. /\ r.id \in PendingScrapeIds /\ sl[r.id] # Absent /\ sl[r.id].number = n
          /\ sl[r.id].pending >= Cardinality(W(n)) /\ sl[r.id].pending \in Int
      BY <1>4, <1>5, <1>6, <1>8
    <3>2. CASE r.id # m.id
      <4>1. sl2[r.id] = sl[r.id]
        BY <2>1, <3>1, <3>2
      <4>2. /\ Cardinality(W(n)) \in Nat /\ Cardinality(W2(n)) \in Nat
            /\ Cardinality(W2(n)) <= Cardinality(W(n))
        BY <1>9
      <4> QED BY <3>1, <4>1, <4>2
    <3>3. CASE r.id = m.id
      <4>1. n = m.number
        BY <1>7, <3>1, <3>3
      <4>2. /\ Cardinality(W(n)) \in Nat /\ Cardinality(W2(n)) \in Nat
            /\ Cardinality(W2(n)) <= Cardinality(W(n)) - 1 /\ Cardinality(W2(n)) >= 1
        BY <1>9, <1>10, <4>1
      <4>3. Cardinality(W2(n)) <= sl[m.id].pending - 1
        BY <3>1, <3>3, <4>2
      <4>4. e # Absent
        BY <1>11, <4>2, <4>3
      <4> QED BY <1>11, <2>1, <3>1, <3>3, <4>3, <4>4
    <3> QED BY <3>2, <3>3
  <2> QED BY <2>2, <2>3 DEF SlabOk, W2, sl2
<1> QED BY <1>7, <1>11

LEMMA IntervalSize == \A l \in Nat : IsFiniteSet(1 .. l) /\ Cardinality(1 .. l) = l
<1>1. ASSUME NEW l \in Nat PROVE IsFiniteSet(1 .. l) /\ Cardinality(1 .. l) = l
  <2>1. 1 \in Int /\ l \in Int
    OBVIOUS
  <2>2. IsFiniteSet(1 .. l) /\ Cardinality(1 .. l) = IF 1 > l THEN 0 ELSE l - 1 + 1
    BY <2>1, FS_Interval
  <2> QED BY <2>2
<1> QED BY <1>1

\* A scrape with number s + 1 gets the free id i: its parts ts are the only ones
\* of that number, and the entry e waits for all of them.
LEMMA SlabScraped ==
  ASSUME NEW c \in Connections, NEW ts0, NEW ch, NEW o, NEW ib, OnceOk(c, ts0, ch, o, ib),
         NEW sl \in Slab, NEW s \in Nat, SlabOk(c, ts0, ch, o, ib, sl, s),
         NEW i \in PendingScrapeIds, sl[i] = Absent,
         NEW ts \in Seq(Part),
         \A k \in 1 .. Len(ts) : ts[k].id = i /\ ts[k].number = s + 1,
         \A j, k \in 1 .. Len(ts) : ts[j].worker = ts[k].worker => j = k,
         NEW e \in PendingScrapeResponse, e.pending = Len(ts), e.number = s + 1
  PROVE  /\ OnceOk(c, ts, ch, o, ib)
         /\ SlabOk(c, ts, ch, o, ib, [sl EXCEPT ![i] = e], s + 1)
<1> DEFINE N == s + 1
           W(n) == Way(c, n, ts0, ch, o, ib)
           W2(n) == Way(c, n, ts, ch, o, ib)
<1>1. Len(ts) \in Nat /\ DOMAIN ts = 1 .. Len(ts) /\ N \in Nat
  OBVIOUS
<1>2. W(N) = {}
  <2> SUFFICES ASSUME NEW r \in W(N) PROVE FALSE
    OBVIOUS
  <2>1. r.id \in PendingScrapeIds
    BY DEF Way, Key
  <2>2. sl[r.id] # Absent /\ sl[r.id].number = N /\ sl[r.id].number <= s
    BY <1>1, <2>1 DEF SlabOk
  <2> QED BY <2>2
<1>3. ASSUME NEW w \in Workers
      PROVE  /\ ~Has(ch[w], RequestOf(c, N, w)) /\ ~Has(ib, ResponseOf(c, N, w))
             /\ o \cap ResponseOf(c, N, w) = {}
  <2>1. PICK n : n = N
    OBVIOUS
  <2>2. Way(c, n, ts0, ch, o, ib) = {}
    BY <1>2, <2>1
  <2>3. /\ ~Has(ch[w], RequestOf(c, n, w)) /\ ~Has(ib, ResponseOf(c, n, w))
        /\ o \cap ResponseOf(c, n, w) = {}
    BY <2>2, WayEmpty
  <2> QED BY <2>1, <2>3
<1>4. ASSUME NEW n \in Nat, NEW w \in Workers, n # N PROVE Fewer(ts, ts0, PartOf(n, w))
  <2>1. \A k \in DOMAIN ts : ts[k] \notin PartOf(n, w)
    BY <1>1, <1>4 DEF PartOf
  <2> QED BY <2>1 DEF Fewer, One, Has
<1>5. ASSUME NEW n \in Nat, NEW w \in Workers
      PROVE  Once(ts, ch[w], o, ib, PartOf(n, w), RequestOf(c, n, w), ResponseOf(c, n, w))
  <2>1. Once(ts0, ch[w], o, ib, PartOf(n, w), RequestOf(c, n, w), ResponseOf(c, n, w))
    BY DEF OnceOk
  <2>2. CASE n = N
    <3>1. One(ts, PartOf(n, w))
      BY <1>1 DEF One, PartOf
    <3> QED BY <1>3, <2>1, <2>2, <3>1 DEF Once
  <2>3. CASE n # N
    <3>1. /\ Fewer(ts, ts0, PartOf(n, w)) /\ Fewer(ch[w], ch[w], RequestOf(c, n, w))
          /\ Fewer(ib, ib, ResponseOf(c, n, w)) /\ o \cap ResponseOf(c, n, w) \subseteq o
      BY <1>4, <2>3, FewerSame
    <3> QED BY <2>1, <3>1, OnceFewer
  <2> QED BY <2>2, <2>3
<1>6. ASSUME NEW n \in Nat, n # N, NEW r \in W2(n) PROVE r \in W(n)
  <2>1. r \in Key /\ r.worker \in Workers
    BY <1>6 DEF Way, Key
  <2>2. /\ Fewer(ts, ts0, PartOf(n, r.worker))
        /\ Fewer(ch[r.worker], ch[r.worker], RequestOf(c, n, r.worker))
        /\ Fewer(ib, ib, ResponseOf(c, n, r.worker))
        /\ o \cap ResponseOf(c, n, r.worker) \subseteq o
        /\ Once(ts0, ch[r.worker], o, ib, PartOf(n, r.worker), RequestOf(c, n, r.worker),
                ResponseOf(c, n, r.worker))
    BY <1>4, <1>6, <2>1, FewerSame DEF OnceOk
  <2>3. Somewhere(ts, ch[r.worker], o, ib, PartOf(n, r.worker), RequestOf(c, n, r.worker),
                  ResponseOf(c, n, r.worker), r.id)
    BY <1>6 DEF Way
  <2>4. PICK w, q : w = r.worker /\ q = ch[w]
    OBVIOUS
  <2>5. /\ Once(ts, q, o, ib, PartOf(n, w), RequestOf(c, n, w), ResponseOf(c, n, w))
        /\ \A j : Somewhere(ts, q, o, ib, PartOf(n, w), RequestOf(c, n, w),
                            ResponseOf(c, n, w), j) =>
                  Somewhere(ts0, q, o, ib, PartOf(n, w), RequestOf(c, n, w),
                            ResponseOf(c, n, w), j)
    <3>1. /\ Fewer(ts, ts0, PartOf(n, w)) /\ Fewer(q, q, RequestOf(c, n, w))
          /\ Fewer(ib, ib, ResponseOf(c, n, w)) /\ o \cap ResponseOf(c, n, w) \subseteq o
          /\ Once(ts0, q, o, ib, PartOf(n, w), RequestOf(c, n, w), ResponseOf(c, n, w))
      BY <2>2, <2>4
    <3> QED BY <3>1, OnceFewer
  <2> QED BY <2>1, <2>3, <2>4, <2>5 DEF Way
<1>7. ASSUME NEW r \in W2(N)
      PROVE  r.id = i /\ \E k \in 1 .. Len(ts) : r = [worker |-> ts[k].worker, id |-> i]
  <2>1. r \in Key /\ r.worker \in Workers /\ r = [worker |-> r.worker, id |-> r.id]
    BY <1>7 DEF Way, Key
  <2>2. Somewhere(ts, ch[r.worker], o, ib, PartOf(N, r.worker), RequestOf(c, N, r.worker),
                  ResponseOf(c, N, r.worker), r.id)
    BY <1>7 DEF Way
  <2>3. Has(ts, {p \in PartOf(N, r.worker) : p.id = r.id})
    <3> HIDE DEF N
    <3> QED BY <1>3, <2>1, <2>2 DEF Somewhere, Has
  <2>4. PICK k \in DOMAIN ts : ts[k] \in PartOf(N, r.worker) /\ ts[k].id = r.id
    BY <2>3 DEF Has
  <2>5. ts[k].worker = r.worker /\ r.id = i /\ k \in 1 .. Len(ts)
    BY <1>1, <2>4 DEF PartOf
  <2> QED BY <2>1, <2>5
<1>8. Cardinality(W2(N)) \in Nat /\ Cardinality(W2(N)) <= Len(ts)
  <2> DEFINE f == [k \in 1 .. Len(ts) |-> [worker |-> ts[k].worker, id |-> i]]
             K == {f[k] : k \in 1 .. Len(ts)}
  <2>1. f \in Surjection(1 .. Len(ts), K)
    BY DEF Surjection
  <2>2. IsFiniteSet(1 .. Len(ts)) /\ Cardinality(1 .. Len(ts)) = Len(ts)
    BY <1>1, IntervalSize
  <2>3. W2(N) \in SUBSET K
    BY <1>7
  <2> HIDE DEF f, K, W2, N
  <2>4. IsFiniteSet(K) /\ Cardinality(K) <= Len(ts)
    BY <2>1, <2>2, FS_Surjection
  <2>5. IsFiniteSet(W2(N)) /\ Cardinality(W2(N)) <= Cardinality(K)
    BY <2>3, <2>4, FS_Subset
  <2>6. Cardinality(K) \in Nat /\ Cardinality(W2(N)) \in Nat
    BY <2>4, <2>5, FS_CardinalityType
  <2> QED BY <1>1, <2>4, <2>5, <2>6
<1>9. /\ \A j \in PendingScrapeIds : sl[j] # Absent => sl[j].number <= s /\ sl[j].number \in Nat
      /\ \A n \in Nat : \A r \in W(n) : /\ sl[r.id] # Absent /\ sl[r.id].number = n
                                        /\ sl[r.id].pending >= Cardinality(W(n))
                                        /\ sl[r.id].pending \in Int /\ r.id \in PendingScrapeIds
  <2>1. \A j \in PendingScrapeIds : sl[j] # Absent => sl[j].number \in Nat /\ sl[j].pending \in Int
    BY DEF Slab, PendingScrapeResponse
  <2>2. \A n \in Nat : \A r \in W(n) : r.id \in PendingScrapeIds
    BY DEF Way, Key
  <2> QED BY <2>1, <2>2 DEF SlabOk
<1> DEFINE sl2 == [sl EXCEPT ![i] = e]
<1>10. \A j \in PendingScrapeIds : sl2[j] = IF j = i THEN e ELSE sl[j]
  BY DEF Slab
<1>11. e # Absent
  BY WsConnectionAssumption
<1> HIDE DEF sl2
<1>12. ASSUME NEW j \in PendingScrapeIds, sl2[j] # Absent PROVE sl2[j].number <= s + 1
  BY <1>9, <1>10, <1>12
<1>13. ASSUME NEW n \in Nat, NEW r \in W2(n)
       PROVE  /\ sl2[r.id] # Absent /\ sl2[r.id].number = n
              /\ sl2[r.id].pending >= Cardinality(W2(n))
  <2>1. CASE n = N
    <3>1. sl2[r.id] = e
      BY <1>7, <1>10, <1>13, <2>1
    <3> QED BY <1>1, <1>8, <1>11, <2>1, <3>1
  <2>2. CASE n # N
    <3>1. r \in W(n) /\ W2(n) \in SUBSET W(n)
      BY <1>6, <1>13, <2>2
    <3>2. /\ sl[r.id] # Absent /\ sl[r.id].number = n /\ r.id \in PendingScrapeIds
          /\ sl[r.id].pending >= Cardinality(W(n)) /\ sl[r.id].pending \in Int
      BY <1>9, <3>1
    <3>3. sl2[r.id] = sl[r.id]
      BY <1>10, <3>2
    <3>4. W(n) \in SUBSET Key
      BY DEF Way
    <3> HIDE DEF W, W2
    <3>5. /\ Cardinality(W(n)) \in Nat /\ Cardinality(W2(n)) \in Nat
          /\ Cardinality(W2(n)) <= Cardinality(W(n))
      BY <3>1, <3>4, KeysLeft
    <3> QED BY <3>2, <3>3, <3>5
  <2> QED BY <2>1, <2>2
<1> QED BY <1>5, <1>12, <1>13 DEF OnceOk, SlabOk, sl2

----------------------------------------------------------------------------
(***************************************************************************)
(* Every step keeps scrapes and their parts together                       *)
(***************************************************************************)
\* A message of one of these kinds is no part of a scrape.
LEMMA OtherKinds ==
  /\ \A p \in Part : p.kind # "scrape" => \A n \in Nat, w \in Workers : p \notin PartOf(n, w)
  /\ \A m \in Response : m.kind # "scrape" =>
        \A c \in Connections, n \in Nat, w \in Workers : m \notin ResponseOf(c, n, w)
BY DEF PartOf, ResponseOf

\* A step that moves and loses parts, and touches neither slab nor phase.
LEMMA KeptIf ==
  ASSUME TypeInv, TypeInv', ScrapeInv, RightPlace',
         \A c \in Connections :
            Moved(c, to_send'[c], in_channel', out', inbox'[c],
                  to_send[c], in_channel, out, inbox[c]),
         \A c \in Connections : sent[c] <= sent'[c] /\ slab'[c] = slab[c] /\ Ended(c)' = Ended(c)
  PROVE  ScrapeInv'
<1>1. \A c \in Connections :
         /\ Moved(c, to_send'[c], in_channel', out', inbox'[c],
                  to_send[c], in_channel, out, inbox[c])
         /\ Ended(c)' \/ (~Ended(c) /\ slab'[c] = slab[c] /\ sent[c] <= sent'[c])
  OBVIOUS
<1> QED BY <1>1, ScrapeKept

LEMMA AnnounceKept ==
  ASSUME TypeInv, TypeInv', ScrapeInv, NEW c \in Connections, NEW m \in Messages[c],
         handle_announce_request(c, m)
  PROVE  ScrapeInv'
<1>1. /\ sent' = [sent EXCEPT ![c] = @ + 1]
      /\ UNCHANGED <<phase, slab, in_channel, out, inbox>>
  BY DEF handle_announce_request, Taken
<1>2. phase[c] = "open"
  BY DEF handle_announce_request, Taken, Ready, Open
<1>3. PICK h \in m.info_hashes :
         to_send' = [to_send EXCEPT ![c] = <<[worker |-> worker_of[h], kind |-> "announce",
                         id |-> Absent, number |-> sent'[c], info_hashes |-> {h}]>>]
  BY DEF handle_announce_request
<1>4. h \in InfoHashes /\ sent'[c] \in Nat
  BY WsConnectionAssumption DEF TypeInv
<1>5. PICK p \in Part : p.kind = "announce" /\ to_send' = [to_send EXCEPT ![c] = <<p>>]
  BY <1>3, <1>4, MessageTypes
<1>6. ASSUME NEW d \in Connections
      PROVE  Moved(d, to_send'[d], in_channel', out', inbox'[d],
                   to_send[d], in_channel, out, inbox[d])
  <2>1. OnceOk(d, to_send[d], in_channel, out, inbox[d])
    BY DEF ScrapeInv
  <2>2. CASE d = c
    <3>1. to_send'[d] = <<p>>
      BY <1>5, <2>2 DEF TypeInv
    <3>2. ASSUME NEW n \in Nat, NEW w \in Workers
          PROVE  /\ Fewer(<<p>>, to_send[d], PartOf(n, w))
                 /\ Fewer(in_channel[w], in_channel[w], RequestOf(d, n, w))
                 /\ Fewer(inbox[d], inbox[d], ResponseOf(d, n, w))
                 /\ out \cap ResponseOf(d, n, w) \subseteq out
      <4>1. p \notin PartOf(n, w)
        BY <1>5, OtherKinds
      <4>2. Fewer(<<p>>, to_send[d], PartOf(n, w))
        BY <4>1 DEF Fewer, One, Has
      <4> QED BY <4>2, FewerSame
    <3>3. Moved(d, <<p>>, in_channel, out, inbox[d], to_send[d], in_channel, out, inbox[d])
      BY <2>1, <3>2, MovedFewer
    <3> QED BY <1>1, <3>1, <3>3
  <2>3. CASE d # c
    <3>1. to_send'[d] = to_send[d]
      BY <1>5, <2>3 DEF TypeInv
    <3> QED BY <1>1, <2>1, <3>1, MovedSame
  <2> QED BY <2>2, <2>3
<1>7. RightPlace' /\ \A d \in Connections : sent[d] <= sent'[d] /\ slab'[d] = slab[d]
                     /\ Ended(d)' = Ended(d)
  BY <1>1 DEF ScrapeInv, RightPlace, TypeInv, Ended
<1> QED BY <1>6, <1>7, KeptIf

LEMMA SendKept ==
  ASSUME TypeInv, TypeInv', ScrapeInv, NEW c \in Connections, Send(c)
  PROVE  ScrapeInv'
<1>1. PICK p : p = Head(to_send[c])
  OBVIOUS
<1>2. to_send[c] \in Seq(Part) /\ to_send[c] # <<>>
  BY DEF Send, TypeInv
<1>3. p \in Part /\ p = to_send[c][1]
  BY <1>1, <1>2
<1>4. p.worker \in Workers
  BY <1>3 DEF Part
<1>5. /\ in_channel' = [in_channel EXCEPT ![p.worker] = Append(@, [conn |-> c, part |-> p])]
      /\ to_send' = [to_send EXCEPT ![c] = Tail(@)]
      /\ UNCHANGED <<phase, sent, slab, out, inbox>>
  BY <1>1 DEF Send
<1>6. in_channel \in [Workers -> Seq(InMessage)]
  BY DEF TypeInv
<1>7. ASSUME NEW d \in Connections
      PROVE  Moved(d, to_send'[d], in_channel', out', inbox'[d],
                   to_send[d], in_channel, out, inbox[d])
  <2>1. OnceOk(d, to_send[d], in_channel, out, inbox[d])
    BY DEF ScrapeInv
  <2>2. CASE d = c
    <3>1. to_send'[d] = Tail(to_send[d]) /\ to_send[d] \in Seq(Part) /\ to_send[d] # <<>>
          /\ p = to_send[d][1]
      BY <1>2, <1>3, <1>5, <2>2 DEF TypeInv
    <3>2. in_channel' = [in_channel EXCEPT ![p.worker] = Append(@, [conn |-> d, part |-> p])]
      BY <1>5, <2>2
    <3>3. Moved(d, Tail(to_send[d]), in_channel', out, inbox[d],
                to_send[d], in_channel, out, inbox[d])
      BY <1>3, <1>6, <2>1, <3>1, <3>2, MovedSent
    <3> QED BY <1>5, <3>1, <3>3
  <2>3. CASE d # c
    <3>1. to_send'[d] = to_send[d]
      BY <1>5, <2>3 DEF TypeInv
    <3>2. Moved(d, to_send[d], in_channel', out, inbox[d],
                to_send[d], in_channel, out, inbox[d])
      BY <1>3, <1>5, <1>6, <2>1, <2>3, MovedSentOther
    <3> QED BY <1>5, <3>1, <3>2
  <2> QED BY <2>2, <2>3
<1>8. RightPlace'
  <2>1. ASSUME NEW w \in Workers, NEW k \in DOMAIN in_channel'[w]
        PROVE  in_channel'[w][k].part.worker = w
    <3>1. CASE w # p.worker
      <4>1. in_channel'[w] = in_channel[w]
        BY <1>5, <1>6, <3>1
      <4> QED BY <4>1 DEF ScrapeInv, RightPlace
    <3>2. CASE w = p.worker
      <4>1. PICK q \in Seq(InMessage), x \in InMessage :
               /\ q = in_channel[w] /\ x = [conn |-> c, part |-> p] /\ in_channel'[w] = Append(q, x)
        BY <1>3, <1>4, <1>5, <1>6, <3>2, MessageTypes
      <4>2. in_channel'[w][k] = x \/ (k \in DOMAIN q /\ in_channel'[w][k] = q[k])
        BY <4>1
      <4>3. x.part.worker = w
        BY <3>2, <4>1
      <4> QED BY <4>1, <4>2, <4>3 DEF ScrapeInv, RightPlace
    <3> QED BY <3>1, <3>2
  <2>2. \A d \in Connections : \A k \in DOMAIN inbox'[d] : inbox'[d][k].to = d
    BY <1>5 DEF ScrapeInv, RightPlace
  <2> QED BY <2>1, <2>2 DEF RightPlace
<1>9. \A d \in Connections : sent[d] <= sent'[d] /\ slab'[d] = slab[d] /\ Ended(d)' = Ended(d)
  BY <1>5 DEF TypeInv, Ended
<1> QED BY <1>7, <1>8, <1>9, KeptIf

LEMMA HandleKept ==
  ASSUME TypeInv, TypeInv', ScrapeInv, NEW v \in Workers, HandleMessage(v)
  PROVE  ScrapeInv'
<1>1. PICK m : m = Head(in_channel[v])
  OBVIOUS
<1>2. in_channel \in [Workers -> Seq(InMessage)] /\ in_channel[v] # <<>>
  BY DEF HandleMessage, TypeInv
<1>3. m \in InMessage /\ m = in_channel[v][1] /\ 1 \in DOMAIN in_channel[v]
  BY <1>1, <1>2
<1>4. m.part.worker = v
  BY <1>3 DEF ScrapeInv, RightPlace
<1>5. /\ out' = out \cup {OutMessage(m.conn, m.part.kind, m.part)} \/ out' = out
      /\ in_channel' = [in_channel EXCEPT ![v] = Tail(@)]
      /\ UNCHANGED <<phase, sent, to_send, slab, inbox>>
  BY <1>1 DEF HandleMessage, reader
<1>6. ASSUME NEW d \in Connections
      PROVE  Moved(d, to_send'[d], in_channel', out', inbox'[d],
                   to_send[d], in_channel, out, inbox[d])
  <2>1. OnceOk(d, to_send[d], in_channel, out, inbox[d])
    BY DEF ScrapeInv
  <2>2. Moved(d, to_send[d], in_channel', out', inbox[d], to_send[d], in_channel, out, inbox[d])
    BY <1>2, <1>3, <1>4, <1>5, <2>1, MovedHandled
  <2> QED BY <1>5, <2>2
<1>7. RightPlace'
  <2>1. ASSUME NEW w \in Workers, NEW k \in DOMAIN in_channel'[w]
        PROVE  in_channel'[w][k].part.worker = w
    <3>1. CASE w # v
      <4>1. in_channel'[w] = in_channel[w]
        BY <1>2, <1>5, <3>1
      <4> QED BY <4>1 DEF ScrapeInv, RightPlace
    <3>2. CASE w = v
      <4>1. PICK q \in Seq(InMessage) :
               q = in_channel[w] /\ q # <<>> /\ in_channel'[w] = Tail(q)
        BY <1>2, <1>5, <3>2
      <4>2. k + 1 \in DOMAIN q /\ in_channel'[w][k] = q[k + 1]
        BY <4>1
      <4> QED BY <4>1, <4>2 DEF ScrapeInv, RightPlace
    <3> QED BY <3>1, <3>2
  <2>2. \A d \in Connections : \A k \in DOMAIN inbox'[d] : inbox'[d][k].to = d
    BY <1>5 DEF ScrapeInv, RightPlace
  <2> QED BY <2>1, <2>2 DEF RightPlace
<1>8. \A d \in Connections : sent[d] <= sent'[d] /\ slab'[d] = slab[d] /\ Ended(d)' = Ended(d)
  BY <1>5 DEF TypeInv, Ended
<1> QED BY <1>6, <1>7, <1>8, KeptIf

LEMMA PassOnKept ==
  ASSUME TypeInv, TypeInv', ScrapeInv, NEW c \in Connections, PassOn(c)
  PROVE  ScrapeInv'
<1>1. /\ offers' = [offers EXCEPT ![c] = @ + 1]
      /\ out' = out \cup {OutMessage(c, "offer", [worker |-> Absent, id |-> Absent,
                             number |-> offers'[c], info_hashes |-> {}])}
      /\ UNCHANGED <<phase, sent, to_send, slab, in_channel, inbox>>
  BY DEF PassOn
<1>2. offers'[c] \in Nat
  BY DEF TypeInv
<1>3. PICK r \in Response : r.kind = "offer" /\ out' = out \cup {r}
  BY <1>1, <1>2, MessageTypes DEF OutMessage
<1>4. ASSUME NEW d \in Connections
      PROVE  Moved(d, to_send'[d], in_channel', out', inbox'[d],
                   to_send[d], in_channel, out, inbox[d])
  <2>1. OnceOk(d, to_send[d], in_channel, out, inbox[d])
    BY DEF ScrapeInv
  <2>2. ASSUME NEW n \in Nat, NEW w \in Workers
        PROVE  /\ Fewer(to_send[d], to_send[d], PartOf(n, w))
               /\ Fewer(in_channel[w], in_channel[w], RequestOf(d, n, w))
               /\ Fewer(inbox[d], inbox[d], ResponseOf(d, n, w))
               /\ out' \cap ResponseOf(d, n, w) \subseteq out
    <3>1. r \notin ResponseOf(d, n, w)
      BY <1>3, OtherKinds
    <3> QED BY <1>3, <3>1, FewerSame
  <2>3. Moved(d, to_send[d], in_channel, out', inbox[d], to_send[d], in_channel, out, inbox[d])
    BY <2>1, <2>2, MovedFewer
  <2> QED BY <1>1, <2>3
<1>5. RightPlace' /\ \A d \in Connections : sent[d] <= sent'[d] /\ slab'[d] = slab[d]
                     /\ Ended(d)' = Ended(d)
  BY <1>1 DEF ScrapeInv, RightPlace, TypeInv, Ended
<1> QED BY <1>4, <1>5, KeptIf

\* A message more in the local channel of c is one for c.
LEMMA AppendPlace ==
  ASSUME TypeInv, ScrapeInv, NEW c \in Connections, NEW m \in Response, m.to = c,
         inbox' = [inbox EXCEPT ![c] = Append(@, m)], UNCHANGED in_channel
  PROVE  RightPlace'
<1>1. ASSUME NEW d \in Connections, NEW k \in DOMAIN inbox'[d] PROVE inbox'[d][k].to = d
  <2>1. CASE d # c
    <3>1. inbox'[d] = inbox[d]
      BY <2>1 DEF TypeInv
    <3> QED BY <3>1 DEF ScrapeInv, RightPlace
  <2>2. CASE d = c
    <3>1. PICK q \in Seq(Response) : q = inbox[d] /\ inbox'[d] = Append(q, m)
      BY <2>2 DEF TypeInv
    <3>2. inbox'[d][k] = m \/ (k \in DOMAIN q /\ inbox'[d][k] = q[k])
      BY <3>1
    <3> QED BY <2>2, <3>1, <3>2 DEF ScrapeInv, RightPlace
  <2> QED BY <2>1, <2>2
<1>2. \A w \in Workers : \A k \in DOMAIN in_channel'[w] : in_channel'[w][k].part.worker = w
  BY DEF ScrapeInv, RightPlace
<1> QED BY <1>1, <1>2 DEF RightPlace

LEMMA TailPlace ==
  ASSUME TypeInv, ScrapeInv, NEW c \in Connections, inbox[c] # <<>>,
         inbox' = [inbox EXCEPT ![c] = Tail(@)], UNCHANGED in_channel
  PROVE  RightPlace'
<1>1. ASSUME NEW d \in Connections, NEW k \in DOMAIN inbox'[d] PROVE inbox'[d][k].to = d
  <2>1. CASE d # c
    <3>1. inbox'[d] = inbox[d]
      BY <2>1 DEF TypeInv
    <3> QED BY <3>1 DEF ScrapeInv, RightPlace
  <2>2. CASE d = c
    <3>1. PICK q \in Seq(Response) : q = inbox[d] /\ q # <<>> /\ inbox'[d] = Tail(q)
      BY <2>2 DEF TypeInv
    <3>2. k \in DOMAIN Tail(q) /\ inbox'[d][k] = Tail(q)[k]
      BY <3>1
    <3>3. k + 1 \in DOMAIN q /\ Tail(q)[k] = q[k + 1]
      BY <3>1, <3>2
    <3> QED BY <3>1, <3>2, <3>3 DEF ScrapeInv, RightPlace
  <2> QED BY <2>1, <2>2
<1>2. \A w \in Workers : \A k \in DOMAIN in_channel'[w] : in_channel'[w][k].part.worker = w
  BY DEF ScrapeInv, RightPlace
<1> QED BY <1>1, <1>2 DEF RightPlace

LEMMA ReceiveKept ==
  ASSUME TypeInv, TypeInv', ScrapeInv, NEW m \in out, receive_out_message(m)
  PROVE  ScrapeInv'
<1>1. /\ out' = out \ {m}
      /\ inbox' = [inbox EXCEPT ![m.to] = Append(@, m)] \/ inbox' = inbox
      /\ UNCHANGED <<phase, sent, to_send, slab, in_channel>>
  BY DEF receive_out_message, reader
<1>2. m \in Response /\ m.to \in Connections
  BY DEF TypeInv, Response
<1>3. ASSUME NEW d \in Connections
      PROVE  Moved(d, to_send'[d], in_channel', out', inbox'[d],
                   to_send[d], in_channel, out, inbox[d])
  <2>1. OnceOk(d, to_send[d], in_channel, out, inbox[d]) /\ inbox[d] \in Seq(Response)
    BY DEF ScrapeInv, TypeInv
  <2>2. /\ Moved(d, to_send[d], in_channel, out \ {m}, Append(inbox[d], m),
                 to_send[d], in_channel, out, inbox[d])
        /\ Moved(d, to_send[d], in_channel, out \ {m}, inbox[d],
                 to_send[d], in_channel, out, inbox[d])
    BY <1>2, <2>1, MovedReceived
  <2>3. inbox'[d] = inbox[d] \/ inbox'[d] = Append(inbox[d], m)
    BY <1>1, <1>2 DEF TypeInv
  <2> QED BY <1>1, <2>2, <2>3
<1>4. RightPlace'
  <2>1. CASE inbox' = inbox
    BY <1>1, <2>1 DEF ScrapeInv, RightPlace
  <2>2. CASE inbox' = [inbox EXCEPT ![m.to] = Append(@, m)]
    <3>1. PICK c \in Connections : m.to = c
      BY <1>2
    <3>2. inbox' = [inbox EXCEPT ![c] = Append(@, m)] /\ in_channel' = in_channel
      BY <1>1, <2>2, <3>1
    <3> QED BY <1>2, <3>1, <3>2, AppendPlace
  <2> QED BY <1>1, <2>1, <2>2
<1>5. \A d \in Connections : sent[d] <= sent'[d] /\ slab'[d] = slab[d] /\ Ended(d)' = Ended(d)
  BY <1>1 DEF TypeInv, Ended
<1> QED BY <1>3, <1>4, <1>5, KeptIf

LEMMA ErrorKept ==
  ASSUME TypeInv, TypeInv', ScrapeInv, NEW c \in Connections, send_error_response(c)
  PROVE  ScrapeInv'
<1>1. UNCHANGED <<sent, in_channel, out>>
  BY DEF send_error_response
<1>2. \A d \in Connections : sent[d] <= sent'[d]
  BY <1>1 DEF TypeInv
<1>3. CASE Close(c)
  BY <1>1, <1>2, <1>3, ScrapeClosed
<1>4. CASE ~Close(c)
  <2>1. UNCHANGED <<phase, to_send, slab>>
    BY <1>4 DEF send_error_response
  <2>2. PICK m \in Response : /\ m.kind = "error" /\ m.to = c
                              /\ inbox' = [inbox EXCEPT ![c] = Append(@, m)]
    <3>1. inbox' = [inbox EXCEPT ![c] = Append(@, OutMessage(c, "error",
                       [worker |-> Absent, id |-> Absent, number |-> sent[c],
                        info_hashes |-> {}]))]
      BY <1>4 DEF send_error_response
    <3>2. sent[c] \in Nat
      BY DEF TypeInv
    <3> QED BY <3>1, <3>2, MessageTypes DEF OutMessage
  <2>3. ASSUME NEW d \in Connections
        PROVE  Moved(d, to_send'[d], in_channel', out', inbox'[d],
                     to_send[d], in_channel, out, inbox[d])
    <3>1. OnceOk(d, to_send[d], in_channel, out, inbox[d]) /\ inbox[d] \in Seq(Response)
      BY DEF ScrapeInv, TypeInv
    <3>2. inbox'[d] = inbox[d] \/ inbox'[d] = Append(inbox[d], m)
      BY <2>2 DEF TypeInv
    <3>3. ASSUME NEW n \in Nat, NEW w \in Workers
          PROVE  /\ Fewer(to_send[d], to_send[d], PartOf(n, w))
                 /\ Fewer(in_channel[w], in_channel[w], RequestOf(d, n, w))
                 /\ Fewer(inbox'[d], inbox[d], ResponseOf(d, n, w))
                 /\ out \cap ResponseOf(d, n, w) \subseteq out
      <4>1. m \notin ResponseOf(d, n, w)
        BY <2>2, OtherKinds
      <4>2. Fewer(inbox'[d], inbox[d], ResponseOf(d, n, w))
        BY <3>1, <3>2, <4>1, FewerAppend, FewerSame
      <4> QED BY <4>2, FewerSame
    <3>4. Moved(d, to_send[d], in_channel, out, inbox'[d], to_send[d], in_channel, out, inbox[d])
      BY <3>1, <3>3, MovedFewer
    <3> QED BY <1>1, <2>1, <3>4
  <2>4. RightPlace'
    BY <1>1, <2>2, AppendPlace
  <2>5. \A d \in Connections : slab'[d] = slab[d] /\ Ended(d)' = Ended(d)
    BY <2>1 DEF Ended
  <2> QED BY <1>2, <2>3, <2>4, <2>5, KeptIf
<1> QED BY <1>3, <1>4

LEMMA TakeKept ==
  ASSUME TypeInv, TypeInv', ScrapeInv, NEW c \in Connections, TakeOutMessage(c)
  PROVE  ScrapeInv'
<1>1. UNCHANGED <<sent, in_channel, out>>
  BY DEF TakeOutMessage
<1>2. \A d \in Connections : sent[d] <= sent'[d]
  BY <1>1 DEF TypeInv
<1>3. PICK m : m = Head(inbox[c])
  OBVIOUS
<1>4. inbox[c] \in Seq(Response) /\ inbox[c] # <<>>
  BY DEF TakeOutMessage, TypeInv
<1>5. m \in Response /\ m = inbox[c][1] /\ 1 \in DOMAIN inbox[c]
  BY <1>3, <1>4
<1>6. m.to = c
  BY <1>5 DEF ScrapeInv, RightPlace
<1>7. CASE Close(c)
  BY <1>1, <1>2, <1>7, ScrapeClosed
<1>8. ASSUME ~Close(c) PROVE inbox' = [inbox EXCEPT ![c] = Tail(@)] /\ UNCHANGED <<phase, to_send>>
  BY <1>8 DEF TakeOutMessage
<1>9. ASSUME ~Close(c) PROVE RightPlace'
  BY <1>1, <1>4, <1>8, <1>9, TailPlace
<1>10. ASSUME ~Close(c), NEW d \in Connections
       PROVE  Moved(d, to_send'[d], in_channel', out', inbox'[d],
                    to_send[d], in_channel, out, inbox[d])
  <2>1. OnceOk(d, to_send[d], in_channel, out, inbox[d])
    BY DEF ScrapeInv
  <2>2. inbox'[d] = inbox[d] \/ (inbox'[d] = Tail(inbox[d]) /\ inbox[d] # <<>>
                                 /\ inbox[d] \in Seq(Response))
    BY <1>4, <1>8, <1>10 DEF TypeInv
  <2>3. ASSUME NEW n \in Nat, NEW w \in Workers
        PROVE  /\ Fewer(to_send[d], to_send[d], PartOf(n, w))
               /\ Fewer(in_channel[w], in_channel[w], RequestOf(d, n, w))
               /\ Fewer(inbox'[d], inbox[d], ResponseOf(d, n, w))
               /\ out \cap ResponseOf(d, n, w) \subseteq out
    BY <2>2, FewerTail, FewerSame
  <2>4. Moved(d, to_send[d], in_channel, out, inbox'[d], to_send[d], in_channel, out, inbox[d])
    BY <2>1, <2>3, MovedFewer
  <2> QED BY <1>1, <1>8, <1>10, <2>4
<1>11. CASE ~Close(c) /\ m.kind # "scrape"
  <2>1. UNCHANGED slab
    BY <1>3, <1>11 DEF TakeOutMessage
  <2>2. \A d \in Connections : slab'[d] = slab[d] /\ Ended(d)' = Ended(d)
    BY <1>8, <1>11, <2>1 DEF Ended
  <2> QED BY <1>2, <1>9, <1>10, <1>11, <2>2, KeptIf
<1>12. CASE ~Close(c) /\ m.kind = "scrape"
  <2>1. PICK entry, now : /\ entry = slab[c][m.id]
                          /\ now = [entry EXCEPT !.pending = @ - 1, !.files = @ \cup m.files]
    OBVIOUS
  <2>2. /\ entry # Absent
        /\ slab' = [slab EXCEPT ![c][m.id] = IF Complete(now) THEN Absent ELSE now]
    BY <1>3, <1>12, <2>1 DEF TakeOutMessage
  <2>3. m.id \in PendingScrapeIds /\ m.files \in SUBSET InfoHashes
    BY <1>5, <1>12 DEF Response
  <2>4. entry \in PendingScrapeResponse
    BY <2>1, <2>2, <2>3 DEF TypeInv, Slab
  <2>5. /\ now \in PendingScrapeResponse
        /\ now.pending = entry.pending - 1 /\ now.number = entry.number
    BY <2>1, <2>3, <2>4, CountedDown
  <2>6. PICK e \in PendingScrapeResponse \cup {Absent} :
           /\ slab' = [slab EXCEPT ![c][m.id] = e]
           /\ e # Absent => e.pending = slab[c][m.id].pending - 1
                            /\ e.number = slab[c][m.id].number
           /\ e = Absent => slab[c][m.id].pending - 1 = 0
    <3>1. PICK e : e = IF Complete(now) THEN Absent ELSE now
      OBVIOUS
    <3>2. now # Absent
      BY <2>5, WsConnectionAssumption
    <3>3. e \in PendingScrapeResponse \cup {Absent} /\ slab' = [slab EXCEPT ![c][m.id] = e]
      BY <2>2, <2>5, <3>1
    <3>4. e # Absent => e.pending = entry.pending - 1 /\ e.number = entry.number
      BY <2>5, <3>1
    <3>5. e = Absent => entry.pending - 1 = 0
      BY <2>5, <3>1, <3>2 DEF Complete
    <3> QED BY <2>1, <3>3, <3>4, <3>5
  <2>7. slab'[c] = [slab[c] EXCEPT ![m.id] = e] /\ \A d \in Connections : d # c => slab'[d] = slab[d]
    BY <2>6 DEF TypeInv
  <2>8. ~Ended(c)
    BY DEF TakeOutMessage, Open, Ended
  <2>9. /\ OnceOk(c, to_send[c], in_channel, out, inbox[c]) /\ slab[c] \in Slab /\ sent[c] \in Nat
        /\ SlabOk(c, to_send[c], in_channel, out, inbox[c], slab[c], sent[c])
    BY <2>8 DEF ScrapeInv, TypeInv
  <2>10. SlabOk(c, to_send[c], in_channel, out, Tail(inbox[c]), [slab[c] EXCEPT ![m.id] = e], sent[c])
    BY <1>4, <1>5, <1>6, <1>12, <2>6, <2>9, SlabTaken
  <2>11. to_send'[c] = to_send[c] /\ inbox'[c] = Tail(inbox[c]) /\ sent'[c] = sent[c]
    BY <1>1, <1>8, <1>12 DEF TypeInv
  <2>12. SlabOk(c, to_send'[c], in_channel', out', inbox'[c], slab'[c], sent'[c])
    BY <1>1, <2>7, <2>10, <2>11
  <2>13. ASSUME NEW d \in Connections, d # c
         PROVE  Ended(d)' \/ (~Ended(d) /\ slab'[d] = slab[d] /\ sent[d] <= sent'[d])
    BY <1>2, <1>8, <1>12, <2>7, <2>13 DEF Ended
  <2>14. OnceOk(c, to_send'[c], in_channel', out', inbox'[c])
    BY <1>10, <1>12, MovedOk
  <2> QED BY <1>9, <1>10, <1>12, <2>12, <2>13, <2>14, KeptBut
<1> QED BY <1>7, <1>11, <1>12

LEMMA ScrapeRequestKept ==
  ASSUME TypeInv, TypeInv', ScrapeInv, NEW c \in Connections, NEW m \in Messages[c],
         handle_scrape_request(c, m)
  PROVE  ScrapeInv'
<1>1. /\ sent' = [sent EXCEPT ![c] = @ + 1] /\ UNCHANGED <<in_channel, out>>
      /\ phase[c] = "open" /\ to_send[c] = <<>>
  BY DEF handle_scrape_request, Taken, Ready, Open
<1>2. \A d \in Connections : sent[d] <= sent'[d]
  BY <1>1 DEF TypeInv
<1>3. CASE Close(c)
  BY <1>1, <1>2, <1>3, ScrapeClosed
<1>4. CASE ~Close(c)
  <2>1. /\ UNCHANGED <<phase, inbox>>
        /\ \E i \in Free(c), parts \in Parts(m.info_hashes) :
             /\ slab' = [slab EXCEPT ![c][i] =
                  [pending |-> Len(parts), number |-> sent'[c], files |-> {}]]
             /\ to_send' = [to_send EXCEPT ![c] =
                  [k \in DOMAIN parts |->
                     [worker |-> parts[k], kind |-> "scrape", id |-> i,
                      number |-> sent'[c],
                      info_hashes |-> {h \in m.info_hashes : worker_of[h] = parts[k]}]]]
    BY <1>4 DEF handle_scrape_request
  <2>2. PICK i \in Free(c), parts \in Parts(m.info_hashes) :
             /\ slab' = [slab EXCEPT ![c][i] =
                  [pending |-> Len(parts), number |-> sent'[c], files |-> {}]]
             /\ to_send' = [to_send EXCEPT ![c] =
                  [k \in DOMAIN parts |->
                     [worker |-> parts[k], kind |-> "scrape", id |-> i,
                      number |-> sent'[c],
                      info_hashes |-> {h \in m.info_hashes : worker_of[h] = parts[k]}]]]
    BY <2>1
  <2>3. i \in PendingScrapeIds /\ slab[c][i] = Absent
    BY DEF Free
  <2>4. m.info_hashes \in SUBSET InfoHashes
    BY WsConnectionAssumption
  <2>5. sent[c] \in Nat /\ sent'[c] = sent[c] + 1 /\ sent'[c] \in Nat
    BY <1>1 DEF TypeInv
  <2>6. PICK e : e = [pending |-> Len(parts), number |-> sent'[c], files |-> {}]
    OBVIOUS
  <2>7. PICK ts : ts = [k \in DOMAIN parts |->
                          [worker |-> parts[k], kind |-> "scrape", id |-> i, number |-> sent'[c],
                           info_hashes |-> {h \in m.info_hashes : worker_of[h] = parts[k]}]]
    OBVIOUS
  <2>8. e \in PendingScrapeResponse /\ ts \in Seq(Part)
    BY <2>3, <2>4, <2>5, <2>6, <2>7, ScrapeType, Zenon
  <2>9. /\ Len(parts) \in Nat /\ DOMAIN parts = 1 .. Len(parts)
        /\ \A j, k \in 1 .. Len(parts) : parts[j] = parts[k] => j = k
    BY <2>4, PartsType
  <2>10. Len(ts) = Len(parts)
    <3>1. DOMAIN ts = 1 .. Len(parts)
      BY <2>7, <2>9
    <3> QED BY <2>8, <2>9, <3>1
  <2>11. \A k \in 1 .. Len(ts) :
            ts[k].id = i /\ ts[k].number = sent[c] + 1 /\ ts[k].worker = parts[k]
    BY <2>5, <2>7, <2>9, <2>10
  <2>12. \A j, k \in 1 .. Len(ts) : ts[j].worker = ts[k].worker => j = k
    BY <2>9, <2>10, <2>11
  <2>13. e.pending = Len(ts) /\ e.number = sent[c] + 1
    BY <2>5, <2>6, <2>10
  <2>14. slab' = [slab EXCEPT ![c][i] = e] /\ to_send' = [to_send EXCEPT ![c] = ts]
    BY <2>2, <2>6, <2>7, Zenon
  <2>15. /\ slab'[c] = [slab[c] EXCEPT ![i] = e] /\ to_send'[c] = ts
         /\ \A d \in Connections : d # c => slab'[d] = slab[d] /\ to_send'[d] = to_send[d]
    BY <2>14 DEF TypeInv
  <2>16. /\ OnceOk(c, to_send[c], in_channel, out, inbox[c]) /\ slab[c] \in Slab
         /\ SlabOk(c, to_send[c], in_channel, out, inbox[c], slab[c], sent[c])
    <3>1. ~Ended(c)
      BY <1>1 DEF Ended
    <3> QED BY <3>1 DEF ScrapeInv, TypeInv
  <2>17. /\ OnceOk(c, ts, in_channel, out, inbox[c])
         /\ SlabOk(c, ts, in_channel, out, inbox[c], [slab[c] EXCEPT ![i] = e], sent[c] + 1)
    BY <2>3, <2>5, <2>8, <2>11, <2>12, <2>13, <2>16, SlabScraped
  <2>18. /\ OnceOk(c, to_send'[c], in_channel', out', inbox'[c])
         /\ SlabOk(c, to_send'[c], in_channel', out', inbox'[c], slab'[c], sent'[c])
    BY <1>1, <2>1, <2>5, <2>15, <2>17
  <2>19. RightPlace'
    BY <1>1, <2>1 DEF ScrapeInv, RightPlace
  <2>20. ASSUME NEW d \in Connections, d # c
         PROVE  /\ Moved(d, to_send'[d], in_channel', out', inbox'[d],
                         to_send[d], in_channel, out, inbox[d])
                /\ Ended(d)' \/ (~Ended(d) /\ slab'[d] = slab[d] /\ sent[d] <= sent'[d])
    <3>1. OnceOk(d, to_send[d], in_channel, out, inbox[d])
      BY DEF ScrapeInv
    <3>2. Moved(d, to_send'[d], in_channel', out', inbox'[d],
                to_send[d], in_channel, out, inbox[d])
      BY <1>1, <2>1, <2>15, <2>20, <3>1, MovedSame
    <3>3. Ended(d)' = Ended(d)
      BY <2>1 DEF Ended
    <3> QED BY <1>2, <2>15, <2>20, <3>2, <3>3
  <2> QED BY <2>18, <2>19, <2>20, KeptBut
<1> QED BY <1>3, <1>4

LEMMA ScrapeStep == TypeInv /\ TypeInv' /\ ScrapeInv /\ [Next]_vars => ScrapeInv'
<1> SUFFICES ASSUME TypeInv, TypeInv', ScrapeInv, [Next]_vars PROVE ScrapeInv'
  OBVIOUS
<1> USE DEF lists, handle, session, reader
<1>1. ASSUME UNCHANGED vars \/ clean_connections \/ Tick \/ Sigusr1 \/ Sigusr2
      PROVE  ScrapeInv'
  <2>1. UNCHANGED <<phase, sent, to_send, in_channel, out, inbox, slab>>
    BY <1>1 DEF vars, clean_connections, Tick, Sigusr1, Sigusr2
  <2>2. \A c \in Connections : sent[c] <= sent'[c] /\ Ended(c)' = Ended(c)
    BY <2>1 DEF TypeInv, Ended
  <2> QED BY <2>1, <2>2, ScrapeSame
<1>2. ASSUME NEW c \in Connections,
             \/ Refuse(c) \/ Accept(c) \/ RunInner(c) \/ Negotiated(c) \/ NotifyClosed(c)
             \/ Closed(c) \/ Written(c)
      PROVE  ScrapeInv'
  <2>1. UNCHANGED <<sent, to_send, in_channel, out, inbox, slab>>
    BY <1>2 DEF Refuse, Accept, RunInner, Negotiated, NotifyClosed, Closed, Written
  <2>2. \A d \in Connections : Ended(d) => Ended(d)'
    BY <1>2 DEF Refuse, Accept, RunInner, Negotiated, NotifyClosed, Closed, Written, Ended, TypeInv
  <2>3. \A d \in Connections : sent[d] <= sent'[d]
    BY <2>1 DEF TypeInv
  <2> QED BY <2>1, <2>2, <2>3, ScrapeSame
<1>3. ASSUME NEW c \in Connections, StreamEnded(c) \/ Inactive(c) \/ WriteFailed(c)
      PROVE  ScrapeInv'
  <2>1. Close(c) /\ UNCHANGED <<sent, in_channel, out>>
    BY <1>3 DEF StreamEnded, Inactive, WriteFailed
  <2>2. \A d \in Connections : sent[d] <= sent'[d]
    BY <2>1 DEF TypeInv
  <2> QED BY <2>1, <2>2, ScrapeClosed
<1>4. ASSUME NEW c \in Connections, Handshake(c) PROVE ScrapeInv'
  <2>1. /\ \/ Close(c)
           \/ /\ phase' = [phase EXCEPT ![c] = "open"] /\ UNCHANGED <<to_send, slab, inbox>>
        /\ UNCHANGED <<sent, in_channel, out>> /\ phase[c] = "handshake"
    BY <1>4 DEF Handshake
  <2>2. \A d \in Connections : sent[d] <= sent'[d]
    BY <2>1 DEF TypeInv
  <2>3. CASE Close(c)
    BY <2>1, <2>2, <2>3, ScrapeClosed
  <2>4. CASE phase' = [phase EXCEPT ![c] = "open"] /\ UNCHANGED <<to_send, slab, inbox>>
    <3>1. \A d \in Connections : Ended(d) => Ended(d)'
      BY <2>1, <2>4 DEF Ended, TypeInv
    <3> QED BY <2>1, <2>2, <2>4, <3>1, ScrapeSame
  <2> QED BY <2>1, <2>3, <2>4
<1>5. ASSUME NEW c \in Connections, NEW m \in Messages[c], ReadRefused(c, m) PROVE ScrapeInv'
  <2>1. /\ sent' = [sent EXCEPT ![c] = @ + 1]
        /\ UNCHANGED <<phase, to_send, slab, in_channel, out, inbox>>
    BY <1>5 DEF ReadRefused, Taken, Replied
  <2>2. \A d \in Connections : sent[d] <= sent'[d] /\ Ended(d)' = Ended(d)
    BY <2>1 DEF TypeInv, Ended
  <2> QED BY <2>1, <2>2, ScrapeSame
<1> QED BY <1>1, <1>2, <1>3, <1>4, <1>5, AnnounceKept, ScrapeRequestKept, SendKept, ErrorKept,
           HandleKept, PassOnKept, ReceiveKept, TakeKept
        DEF Next, TaskStep, PeerStep, WorkerStep

LEMMA ScrapeInit == Init => ScrapeInv
<1> SUFFICES ASSUME Init PROVE ScrapeInv
  OBVIOUS
<1>1. /\ \A c \in Connections : to_send[c] = <<>> /\ inbox[c] = <<>> /\ sent[c] = 0
      /\ \A c \in Connections, i \in PendingScrapeIds : slab[c][i] = Absent
      /\ \A w \in Workers : in_channel[w] = <<>>
      /\ out = {}
  BY DEF Init
<1>2. RightPlace
  BY <1>1 DEF RightPlace
<1>3. \A S : ~Has(<<>>, S) /\ One(<<>>, S)
  BY DEF Has, One
<1>4. ASSUME NEW c \in Connections PROVE OnceOk(c, to_send[c], in_channel, out, inbox[c])
  BY <1>1, <1>3 DEF OnceOk, Once
<1>5. ASSUME NEW c \in Connections
      PROVE  SlabOk(c, to_send[c], in_channel, out, inbox[c], slab[c], sent[c])
  <2>1. ASSUME NEW n \in Nat, NEW r \in Way(c, n, to_send[c], in_channel, out, inbox[c])
        PROVE  FALSE
    <3>1. r.worker \in Workers
      BY <2>1 DEF Way, Key
    <3>2. Somewhere(to_send[c], in_channel[r.worker], out, inbox[c], PartOf(n, r.worker),
                    RequestOf(c, n, r.worker), ResponseOf(c, n, r.worker), r.id)
      BY <2>1 DEF Way
    <3> QED BY <1>1, <1>3, <3>1, <3>2 DEF Somewhere
  <2> QED BY <1>1, <2>1 DEF SlabOk
<1> QED BY <1>2, <1>4, <1>5 DEF ScrapeInv

\* What the property counts is what the invariant counts.
LEMMA WaySame ==
  ASSUME TypeInv, RightPlace, NEW c \in Connections, NEW n \in Nat
  PROVE  OnTheirWay(c, n) = Way(c, n, to_send[c], in_channel, out, inbox[c])
<1> DEFINE own(part) == part.kind = "scrape" /\ part.number = n
           A == {[worker |-> p.worker, id |-> p.id] : p \in {q \in Range(to_send[c]) : own(q)}}
           B == {[worker |-> m.worker, id |-> m.id] : m \in {q \in out : q.to = c /\ own(q)}}
           C == {[worker |-> m.worker, id |-> m.id] : m \in {q \in Range(inbox[c]) : own(q)}}
           D(w) == {[worker |-> w, id |-> m.part.id] :
                      m \in {q \in Range(in_channel[w]) : q.conn = c /\ own(q.part)}}
           W == Way(c, n, to_send[c], in_channel, out, inbox[c])
<1>1. OnTheirWay(c, n) = UNION {A, B, C, UNION {D(w) : w \in Workers}}
  BY DEF OnTheirWay
<1>2. /\ \A k \in DOMAIN to_send[c] : to_send[c][k] \in Part
      /\ \A k \in DOMAIN inbox[c] : inbox[c][k] \in Response /\ inbox[c][k].to = c
      /\ \A w \in Workers : \A k \in DOMAIN in_channel[w] :
            in_channel[w][k] \in InMessage /\ in_channel[w][k].part.worker = w
      /\ out \subseteq Response
  BY DEF TypeInv, RightPlace
<1>3. ASSUME NEW w \in Workers, NEW i \in PendingScrapeIds,
             Somewhere(to_send[c], in_channel[w], out, inbox[c], PartOf(n, w),
                       RequestOf(c, n, w), ResponseOf(c, n, w), i)
      PROVE  [worker |-> w, id |-> i] \in W
  <2>1. PICK r \in Key : r = [worker |-> w, id |-> i]
    BY DEF Key
  <2> QED BY <1>3, <2>1 DEF Way
<1>4. ASSUME NEW z \in A PROVE z \in W
  <2>1. PICK p \in Range(to_send[c]) : own(p) /\ z = [worker |-> p.worker, id |-> p.id]
    BY <1>4, Zenon
  <2>2. PICK k \in DOMAIN to_send[c] : p = to_send[c][k]
    BY <2>1 DEF Range
  <2>3. p \in Part /\ p.worker \in Workers /\ p.id \in PendingScrapeIds /\ p \in PartOf(n, p.worker)
    BY <1>2, <2>1, <2>2 DEF Part, PartOf
  <2>4. Has(to_send[c], {x \in PartOf(n, p.worker) : x.id = p.id})
    BY <2>2, <2>3 DEF Has
  <2> QED BY <1>3, <2>1, <2>3, <2>4 DEF Somewhere
<1>5. ASSUME NEW z \in B PROVE z \in W
  <2>1. PICK m \in out : m.to = c /\ own(m) /\ z = [worker |-> m.worker, id |-> m.id]
    BY <1>5, Zenon
  <2>2. m.worker \in Workers /\ m.id \in PendingScrapeIds /\ m \in ResponseOf(c, n, m.worker)
    BY <1>2, <2>1 DEF Response, ResponseOf
  <2>3. out \cap {x \in ResponseOf(c, n, m.worker) : x.id = m.id} # {}
    BY <2>2
  <2> QED BY <1>3, <2>1, <2>2, <2>3 DEF Somewhere
<1>6. ASSUME NEW z \in C PROVE z \in W
  <2>1. PICK m \in Range(inbox[c]) : own(m) /\ z = [worker |-> m.worker, id |-> m.id]
    BY <1>6, Zenon
  <2>2. PICK k \in DOMAIN inbox[c] : m = inbox[c][k]
    BY <2>1 DEF Range
  <2>3. m.worker \in Workers /\ m.id \in PendingScrapeIds /\ m \in ResponseOf(c, n, m.worker)
    BY <1>2, <2>1, <2>2 DEF Response, ResponseOf
  <2>4. Has(inbox[c], {x \in ResponseOf(c, n, m.worker) : x.id = m.id})
    BY <2>2, <2>3 DEF Has
  <2> QED BY <1>3, <2>1, <2>3, <2>4 DEF Somewhere
<1>7. ASSUME NEW w \in Workers, NEW z \in D(w) PROVE z \in W
  <2>1. PICK m \in Range(in_channel[w]) :
           m.conn = c /\ own(m.part) /\ z = [worker |-> w, id |-> m.part.id]
    BY <1>7, Zenon
  <2>2. PICK k \in DOMAIN in_channel[w] : m = in_channel[w][k]
    BY <2>1 DEF Range
  <2>3. m.part.id \in PendingScrapeIds /\ m \in RequestOf(c, n, w)
    BY <1>2, <2>1, <2>2 DEF InMessage, Part, RequestOf, PartOf
  <2>4. Has(in_channel[w], {x \in RequestOf(c, n, w) : x.part.id = m.part.id})
    BY <2>2, <2>3 DEF Has
  <2> QED BY <1>3, <2>1, <2>3, <2>4 DEF Somewhere
<1>8. ASSUME NEW r \in W PROVE r \in A \/ r \in B \/ r \in C \/ r \in D(r.worker)
  <2>1. r \in Key /\ r.worker \in Workers /\ r = [worker |-> r.worker, id |-> r.id]
    BY <1>8 DEF Way, Key
  <2>2. Somewhere(to_send[c], in_channel[r.worker], out, inbox[c], PartOf(n, r.worker),
                  RequestOf(c, n, r.worker), ResponseOf(c, n, r.worker), r.id)
    BY <1>8 DEF Way
  <2>3. ASSUME Has(to_send[c], {p \in PartOf(n, r.worker) : p.id = r.id}) PROVE r \in A
    <3>1. PICK p \in Range(to_send[c]) : p \in PartOf(n, r.worker) /\ p.id = r.id
      BY <2>3 DEF Has, Range
    <3>2. own(p) /\ r = [worker |-> p.worker, id |-> p.id]
      BY <2>1, <3>1 DEF PartOf
    <3> QED BY <3>2
  <2>4. ASSUME Has(in_channel[r.worker], {m \in RequestOf(c, n, r.worker) : m.part.id = r.id})
        PROVE  r \in D(r.worker)
    <3>1. PICK m \in Range(in_channel[r.worker]) :
             m \in RequestOf(c, n, r.worker) /\ m.part.id = r.id
      BY <2>4 DEF Has, Range
    <3>2. m.conn = c /\ own(m.part) /\ r = [worker |-> r.worker, id |-> m.part.id]
      BY <2>1, <3>1 DEF RequestOf, PartOf
    <3> QED BY <3>2
  <2>5. ASSUME out \cap {m \in ResponseOf(c, n, r.worker) : m.id = r.id} # {} PROVE r \in B
    <3>1. PICK m \in out : m \in ResponseOf(c, n, r.worker) /\ m.id = r.id
      BY <2>5
    <3>2. m.to = c /\ own(m) /\ r = [worker |-> m.worker, id |-> m.id]
      BY <2>1, <3>1 DEF ResponseOf
    <3> QED BY <3>2
  <2>6. ASSUME Has(inbox[c], {m \in ResponseOf(c, n, r.worker) : m.id = r.id}) PROVE r \in C
    <3>1. PICK m \in Range(inbox[c]) : m \in ResponseOf(c, n, r.worker) /\ m.id = r.id
      BY <2>6 DEF Has, Range
    <3>2. own(m) /\ r = [worker |-> m.worker, id |-> m.id]
      BY <2>1, <3>1 DEF ResponseOf
    <3> QED BY <3>2
  <2> QED BY <2>2, <2>3, <2>4, <2>5, <2>6 DEF Somewhere
<1>9. \A r \in W : r.worker \in Workers
  BY DEF Way, Key
<1> HIDE DEF A, B, C, D, W
<1>10. OnTheirWay(c, n) = W
  BY <1>1, <1>4, <1>5, <1>6, <1>7, <1>8, <1>9
<1> QED BY <1>10 DEF W

\* The parts of a scrape find its entry in the slab of an open connection, which
\* waits for at least those on their way, however channels drop, reorder and
\* delay responses and however often the byte that names it is used again.
THEOREM WsPartsMeetTheirScrape == Spec => []PartsMeetTheirScrape
<1>1. TypeInv /\ ScrapeInv => PartsMeetTheirScrape
  <2> SUFFICES ASSUME TypeInv, ScrapeInv, NEW c \in Connections, Open(c), NEW n \in 1 .. MaxMessages,
                      NEW p \in OnTheirWay(c, n)
               PROVE  /\ slab[c][p.id] # Absent
                      /\ slab[c][p.id].number = n
                      /\ slab[c][p.id].pending >= Cardinality(OnTheirWay(c, n))
    BY DEF PartsMeetTheirScrape
  <2>1. n \in Nat
    BY WsConnectionAssumption
  <2>2. OnTheirWay(c, n) = Way(c, n, to_send[c], in_channel, out, inbox[c])
    BY <2>1, WaySame DEF ScrapeInv
  <2>3. SlabOk(c, to_send[c], in_channel, out, inbox[c], slab[c], sent[c])
    BY DEF ScrapeInv, Open, Ended
  <2> QED BY <2>1, <2>2, <2>3 DEF SlabOk
<1> QED BY <1>1, TypeInit, TypeStep, ScrapeInit, ScrapeStep, PTL DEF Spec
============================================================================
