-------------------------- MODULE UdpSocketProofs --------------------------
(***************************************************************************)
(* Proofs about UdpSocket, for every number of workers and addresses and   *)
(* every setting: ids expire and are accepted when they should be although *)
(* every worker judges them by a clock of its own, nobody is blamed for a  *)
(* datagram that another sent, and no address is sent more datagrams than  *)
(* claim to come from it.                                                  *)
(***************************************************************************)
EXTENDS UdpSocket, TLAPS, FiniteSetTheorems, SequenceTheorems

----------------------------------------------------------------------------
(***************************************************************************)
(* The inductive invariant                                                 *)
(***************************************************************************)
\* A cached clock is never ahead, and never more than MaxLag behind.
ClocksLag ==
    \A w \in Workers : /\ seconds_since_start[w] <= now
                       /\ now <= seconds_since_start[w] + MaxLag

\* What holds of an id that was made for ip: its time is that of a clock that
\* lagged at most MaxLag behind.
GoodId(id, ip, time) ==
    /\ id \in ConnectionId
    /\ id.elapsed <= id.issued
    /\ id.issued <= id.elapsed + MaxLag
    /\ id.issued <= time
    /\ id.hash = hash(id.elapsed, ip)

IdsGood == \A ip \in Ips : \A id \in known[ip] : GoodId(id, ip, now)

\* Ids that wait to be sent a second time are as good.
BuffersGood ==
    \A w \in Workers, s \in Sockets : \A i \in DOMAIN resend_buffer[w][s] :
        resend_buffer[w][s][i].id # NoId =>
            GoodId(resend_buffer[w][s][i].id, resend_buffer[w][s][i].to, now)

IInv == TypeOK /\ ClocksLag /\ IdsGood /\ BuffersGood /\ OnlySendersBlamed
               /\ AnswersWithinRequests

----------------------------------------------------------------------------
(***************************************************************************)
(* Lemmas                                                                  *)
(***************************************************************************)
\* The positions of a buffer that hold responses to ip.
Waiting(buffer, ip) == {i \in DOMAIN buffer : buffer[i].to = ip}

LEMMA WaitingFinite ==
    ASSUME NEW S, NEW buffer \in Seq(S), NEW ip
    PROVE  /\ IsFiniteSet(Waiting(buffer, ip))
           /\ Cardinality(Waiting(buffer, ip)) \in Nat
<1>1. Len(buffer) \in Nat /\ DOMAIN buffer = 1 .. Len(buffer)
  BY LenProperties
<1>2. IsFiniteSet(1 .. Len(buffer))
  BY <1>1, FS_Interval
<1>3. Waiting(buffer, ip) \subseteq 1 .. Len(buffer)
  BY <1>1 DEF Waiting
<1>4. IsFiniteSet(Waiting(buffer, ip))
  BY <1>2, <1>3, FS_Subset
<1> QED BY <1>4, FS_CardinalityType

LEMMA WaitingAppend ==
    ASSUME NEW S, NEW buffer \in Seq(S), NEW r \in S, NEW ip
    PROVE  Cardinality(Waiting(Append(buffer, r), ip)) =
               IF r.to = ip THEN Cardinality(Waiting(buffer, ip)) + 1
                            ELSE Cardinality(Waiting(buffer, ip))
<1> DEFINE n == Len(buffer)
<1>1. /\ n \in Nat /\ DOMAIN buffer = 1 .. n
      /\ DOMAIN Append(buffer, r) = 1 .. n + 1
      /\ \A i \in 1 .. n : Append(buffer, r)[i] = buffer[i]
      /\ Append(buffer, r)[n + 1] = r
  BY LenProperties, AppendProperties
<1>2. IsFiniteSet(Waiting(buffer, ip))
  BY WaitingFinite
<1>3. n + 1 \notin Waiting(buffer, ip)
  BY <1>1 DEF Waiting
<1>4. CASE r.to = ip
  <2>1. Waiting(Append(buffer, r), ip) = Waiting(buffer, ip) \cup {n + 1}
    BY <1>1, <1>4 DEF Waiting
  <2>2. Cardinality(Waiting(buffer, ip) \cup {n + 1}) = Cardinality(Waiting(buffer, ip)) + 1
    BY <1>2, <1>3, FS_AddElement
  <2> QED BY <1>4, <2>1, <2>2
<1>5. CASE r.to # ip
  <2>1. Waiting(Append(buffer, r), ip) = Waiting(buffer, ip)
    BY <1>1, <1>5 DEF Waiting
  <2> QED BY <1>5, <2>1
<1> QED BY <1>4, <1>5

LEMMA SuccessesWait ==
    ASSUME NEW S, NEW buffer \in Seq(S), NEW ok \in SUBSET DOMAIN buffer, NEW ip
    PROVE  /\ Successes(buffer, ok, ip) \in Nat
           /\ Successes(buffer, ok, ip) <= Cardinality(Waiting(buffer, ip))
<1>1. IsFiniteSet(Waiting(buffer, ip))
  BY WaitingFinite
<1>2. {i \in ok : buffer[i].to = ip} \subseteq Waiting(buffer, ip)
  BY DEF Waiting
<1> QED BY <1>1, <1>2, FS_Subset, FS_CardinalityType DEF Successes

\* What a fresh id is good for.
LEMMA CreatedGood ==
    ASSUME TypeOK, ClocksLag, NEW w \in Workers, NEW ip \in Ips
    PROVE  GoodId(create_connection_id(w, ip), ip, now)
BY UdpSocketAssumption
   DEF TypeOK, ClocksLag, GoodId, ConnectionId, create_connection_id, hash

----------------------------------------------------------------------------
(***************************************************************************)
(* The steps                                                               *)
(***************************************************************************)
LEMMA InitIInv == ASSUME Init PROVE IInv
<1>1. TypeOK
  BY UdpSocketAssumption DEF Init, TypeOK
<1>2. ClocksLag /\ IdsGood /\ BuffersGood /\ OnlySendersBlamed
  BY UdpSocketAssumption
     DEF Init, ClocksLag, IdsGood, BuffersGood, OnlySendersBlamed
<1>3. AnswersWithinRequests
  <2> SUFFICES ASSUME NEW w \in Workers, NEW s \in Sockets, NEW ip \in Ips
               PROVE  sent[<<w, s, ip>>]
                        + Cardinality({i \in DOMAIN resend_buffer[w][s] :
                                          resend_buffer[w][s][i].to = ip})
                        <= received[<<w, s, ip>>]
    BY DEF AnswersWithinRequests
  <2>1. resend_buffer[w][s] = << >> /\ sent[<<w, s, ip>>] = 0 /\ received[<<w, s, ip>>] = 0
    BY DEF Init
  <2>2. {i \in DOMAIN resend_buffer[w][s] : resend_buffer[w][s][i].to = ip} = {}
    BY <2>1
  <2> QED BY <2>1, <2>2, FS_EmptySet
<1> QED BY <1>1, <1>2, <1>3 DEF IInv

\* A response is sent, kept for a second attempt, or lost.
LEMMA SendStep ==
    ASSUME IInv, NEW w \in Workers, NEW s \in Sockets, NEW r \in Response,
           r.id # NoId => GoodId(r.id, r.to, now),
           NEW outcome, send_response(w, s, r, outcome),
           received' = [received EXCEPT ![<<w, s, r.to>>] = @ + 1],
           UNCHANGED <<now, seconds_since_start>>
    PROVE  /\ known' \in [Ips -> SUBSET ConnectionId]
           /\ sent' \in [Workers \X Sockets \X Ips -> Nat]
           /\ received' \in [Workers \X Sockets \X Ips -> Nat]
           /\ resend_buffer' \in [Workers -> [Sockets -> Seq(Response)]]
           /\ IdsGood' /\ BuffersGood' /\ AnswersWithinRequests'
<1> DEFINE keeps == outcome = "full" /\ Len(resend_buffer[w][s]) < resend_buffer_max_len
           b == resend_buffer[w][s]
<1>1. /\ r.to \in Ips /\ r.id \in ConnectionId \cup {NoId}
      /\ b \in Seq(Response) /\ resend_buffer \in [Workers -> [Sockets -> Seq(Response)]]
      /\ <<w, s, r.to>> \in Workers \X Sockets \X Ips
      /\ known \in [Ips -> SUBSET ConnectionId]
      /\ sent \in [Workers \X Sockets \X Ips -> Nat]
      /\ received \in [Workers \X Sockets \X Ips -> Nat]
  BY DEF IInv, TypeOK, Response
<1>2. known' \in [Ips -> SUBSET ConnectionId]
  BY <1>1 DEF send_response, Delivered
<1>3. sent' \in [Workers \X Sockets \X Ips -> Nat] /\ received' \in [Workers \X Sockets \X Ips -> Nat]
  BY <1>1 DEF send_response
<1>4. /\ Append(b, r) \in Seq(Response) /\ Len(b) \in Nat /\ DOMAIN b = 1 .. Len(b)
      /\ DOMAIN Append(b, r) = 1 .. Len(b) + 1
      /\ \A i \in 1 .. Len(b) : Append(b, r)[i] = b[i]
      /\ Append(b, r)[Len(b) + 1] = r
  BY <1>1, LenProperties, AppendProperties
<1>5. /\ resend_buffer' \in [Workers -> [Sockets -> Seq(Response)]]
      /\ \A v \in Workers, t \in Sockets :
            resend_buffer'[v][t] = IF keeps /\ v = w /\ t = s THEN Append(b, r)
                                   ELSE resend_buffer[v][t]
  <2>1. CASE keeps
    <3>1. resend_buffer' = [resend_buffer EXCEPT ![w][s] = Append(b, r)]
      BY <2>1 DEF send_response
    <3> HIDE DEF keeps, b
    <3>2. resend_buffer' \in [Workers -> [Sockets -> Seq(Response)]]
      BY <1>1, <1>4, <3>1
    <3>3. \A v \in Workers, t \in Sockets :
            resend_buffer'[v][t] = IF v = w /\ t = s THEN Append(b, r)
                                   ELSE resend_buffer[v][t]
      BY <1>1, <3>1
    <3> QED BY <2>1, <3>2, <3>3
  <2>2. CASE ~keeps
    BY <1>1, <2>2 DEF send_response
  <2> QED BY <2>1, <2>2
<1>6. IdsGood'
  BY <1>1, <1>2 DEF IInv, IdsGood, GoodId, send_response, Delivered
<1> HIDE DEF keeps
<1>7. BuffersGood'
  <2> SUFFICES ASSUME NEW v \in Workers, NEW t \in Sockets,
                      NEW i \in DOMAIN resend_buffer'[v][t],
                      resend_buffer'[v][t][i].id # NoId
               PROVE  GoodId(resend_buffer'[v][t][i].id, resend_buffer'[v][t][i].to, now')
    BY DEF BuffersGood
  <2>1. now' = now
    OBVIOUS
  <2>2. CASE keeps /\ v = w /\ t = s
    <3>1. resend_buffer'[v][t] = Append(b, r)
      BY <1>5, <2>2
    <3>2. CASE i = Len(b) + 1
      BY <1>4, <2>1, <3>1, <3>2
    <3>3. CASE i # Len(b) + 1
      <4>1. i \in DOMAIN b /\ resend_buffer'[v][t][i] = b[i]
        BY <1>4, <3>1, <3>3
      <4> QED BY <2>1, <4>1 DEF IInv, BuffersGood
    <3> QED BY <3>2, <3>3
  <2>3. CASE ~(keeps /\ v = w /\ t = s)
    <3>1. resend_buffer'[v][t] = resend_buffer[v][t]
      BY <1>5, <2>3
    <3> QED BY <2>1, <3>1 DEF IInv, BuffersGood
  <2> QED BY <2>2, <2>3
<1>8. AnswersWithinRequests'
  <2> SUFFICES ASSUME NEW v \in Workers, NEW t \in Sockets, NEW ip \in Ips
               PROVE  sent'[<<v, t, ip>>]
                        + Cardinality(Waiting(resend_buffer'[v][t], ip))
                        <= received'[<<v, t, ip>>]
    BY DEF AnswersWithinRequests, Waiting
  <2>1. /\ sent[<<v, t, ip>>] + Cardinality(Waiting(resend_buffer[v][t], ip))
              <= received[<<v, t, ip>>]
        /\ sent[<<v, t, ip>>] \in Nat /\ received[<<v, t, ip>>] \in Nat
        /\ Cardinality(Waiting(resend_buffer[v][t], ip)) \in Nat
    <3>1. resend_buffer[v][t] \in Seq(Response)
      BY <1>1
    <3>2. Cardinality(Waiting(resend_buffer[v][t], ip)) \in Nat
      BY <3>1, WaitingFinite
    <3> QED BY <1>1, <3>2 DEF IInv, AnswersWithinRequests, Waiting
  <2>2. received'[<<v, t, ip>>] = IF v = w /\ t = s /\ ip = r.to
                                  THEN received[<<v, t, ip>>] + 1 ELSE received[<<v, t, ip>>]
    BY <1>1
  <2>3. CASE ~(v = w /\ t = s)
    <3>1. resend_buffer'[v][t] = resend_buffer[v][t] /\ sent'[<<v, t, ip>>] = sent[<<v, t, ip>>]
      BY <1>1, <1>5, <2>3 DEF send_response
    <3> QED BY <2>1, <2>2, <2>3, <3>1
  <2>4. CASE v = w /\ t = s
    <3>1. CASE keeps
      <4>1. resend_buffer'[v][t] = Append(b, r) /\ sent'[<<v, t, ip>>] = sent[<<v, t, ip>>]
        BY <1>5, <2>4, <3>1 DEF send_response, keeps
      <4>2. Cardinality(Waiting(Append(b, r), ip)) =
               IF r.to = ip THEN Cardinality(Waiting(b, ip)) + 1 ELSE Cardinality(Waiting(b, ip))
        BY <1>1, WaitingAppend
      <4> QED BY <2>1, <2>2, <2>4, <4>1, <4>2
    <3>2. CASE ~keeps
      <4>1. resend_buffer'[v][t] = resend_buffer[v][t]
        BY <1>5, <3>2
      <4>2. sent'[<<v, t, ip>>] <= IF ip = r.to THEN sent[<<v, t, ip>>] + 1
                                   ELSE sent[<<v, t, ip>>]
        <5>1. CASE outcome = "sent"
          <6>1. sent' = [sent EXCEPT ![<<w, s, r.to>>] = sent[<<w, s, r.to>>] + 1]
            BY <5>1 DEF send_response
          <6>2. <<v, t, ip>> \in Workers \X Sockets \X Ips
            OBVIOUS
          <6>3. sent'[<<v, t, ip>>] = IF <<v, t, ip>> = <<w, s, r.to>>
                                      THEN sent[<<v, t, ip>>] + 1 ELSE sent[<<v, t, ip>>]
            BY <1>1, <6>1, <6>2
          <6> QED BY <2>1, <6>3
        <5>2. CASE outcome # "sent"
          BY <2>1, <5>2 DEF send_response
        <5> QED BY <5>1, <5>2
      <4>3. sent'[<<v, t, ip>>] \in Nat
        BY <1>3
      <4> QED BY <2>1, <2>2, <2>4, <4>1, <4>2, <4>3
    <3> QED BY <3>1, <3>2
  <2> QED BY <2>3, <2>4
<1> QED BY <1>2, <1>3, <1>5, <1>6, <1>7, <1>8

\* A turn of the receiving loop.
LEMMA ReceiveStep ==
    ASSUME IInv, NEW w \in Workers, NEW s \in Sockets, NEW d \in Datagram,
           d.id # NoId => d.id \in known[d.sender], Receive(w, s, d)
    PROVE  IInv'
<1> DEFINE r == handle_request(w, d)
<1>1. d.src \in Ips /\ d.sender \in Ips
  BY DEF Datagram
<1>2. /\ UNCHANGED <<now, seconds_since_start, iter_counter>>
      /\ received' = [received EXCEPT ![<<w, s, d.src>>] = @ + 1]
  BY DEF Receive
<1>3. ClocksLag'
  BY <1>2 DEF IInv, ClocksLag
<1>4. OnlySendersBlamed' /\ blamed' \subseteq Ips \X Ips
  <2>1. CASE Blames(w, d)
    <3>1. d.id \in known[d.sender] /\ d.id.hash = hash(d.id.elapsed, d.src)
      BY <2>1 DEF Blames, Validated, connection_id_valid
    <3>2. d.id.hash = hash(d.id.elapsed, d.sender)
      BY <1>1, <3>1 DEF IInv, IdsGood, GoodId
    <3>3. d.sender = d.src
      BY <3>1, <3>2 DEF hash
    <3>4. blamed' = blamed \cup {<<d.sender, d.src>>}
      BY <2>1 DEF Receive
    <3> QED BY <1>1, <3>3, <3>4 DEF IInv, TypeOK, OnlySendersBlamed
  <2>2. CASE ~Blames(w, d)
    BY <2>2 DEF Receive, IInv, TypeOK, OnlySendersBlamed
  <2> QED BY <2>1, <2>2
<1>5. auto_banned' \subseteq Ips
  BY <1>1 DEF Receive, IInv, TypeOK
<1>6. /\ known' \in [Ips -> SUBSET ConnectionId]
      /\ sent' \in [Workers \X Sockets \X Ips -> Nat]
      /\ received' \in [Workers \X Sockets \X Ips -> Nat]
      /\ resend_buffer' \in [Workers -> [Sockets -> Seq(Response)]]
      /\ IdsGood' /\ BuffersGood' /\ AnswersWithinRequests'
  <2>1. CASE Answered(w, d)
    <3>1. PICK outcome : send_response(w, s, r, outcome)
      BY <2>1 DEF Receive
    <3>2. GoodId(create_connection_id(w, d.src), d.src, now)
      BY <1>1, CreatedGood DEF IInv
    <3>3. r \in Response /\ r.to = d.src /\ (r.id # NoId => GoodId(r.id, r.to, now))
      BY <1>1, <3>2 DEF handle_request, Response, GoodId
    <3> HIDE DEF r
    <3> QED BY <1>2, <3>1, <3>3, SendStep
  <2>2. CASE ~Answered(w, d)
    <3>1. UNCHANGED <<known, sent, resend_buffer>>
      BY <2>2 DEF Receive
    <3>2. IdsGood' /\ BuffersGood'
      BY <1>2, <3>1 DEF IInv, IdsGood, BuffersGood
    <3>3. received' \in [Workers \X Sockets \X Ips -> Nat]
      BY <1>1, <1>2 DEF IInv, TypeOK
    <3>4. AnswersWithinRequests'
      <4> SUFFICES ASSUME NEW v \in Workers, NEW t \in Sockets, NEW ip \in Ips
                   PROVE  sent[<<v, t, ip>>]
                            + Cardinality(Waiting(resend_buffer[v][t], ip))
                            <= received'[<<v, t, ip>>]
        BY <3>1 DEF AnswersWithinRequests, Waiting
      <4>1. resend_buffer[v][t] \in Seq(Response)
        BY DEF IInv, TypeOK
      <4>2. Cardinality(Waiting(resend_buffer[v][t], ip)) \in Nat
        BY <4>1, WaitingFinite
      <4>3. sent[<<v, t, ip>>] + Cardinality(Waiting(resend_buffer[v][t], ip))
               <= received[<<v, t, ip>>]
        BY DEF IInv, AnswersWithinRequests, Waiting
      <4>4. sent[<<v, t, ip>>] \in Nat /\ received[<<v, t, ip>>] \in Nat
        BY DEF IInv, TypeOK
      <4>5. received'[<<v, t, ip>>] >= received[<<v, t, ip>>]
        <5>1. <<v, t, ip>> \in Workers \X Sockets \X Ips
              /\ received \in [Workers \X Sockets \X Ips -> Nat]
          BY DEF IInv, TypeOK
        <5>2. received'[<<v, t, ip>>] = IF <<v, t, ip>> = <<w, s, d.src>>
                 THEN received[<<v, t, ip>>] + 1 ELSE received[<<v, t, ip>>]
          BY <1>2, <5>1
        <5> QED BY <4>4, <5>2
      <4>6. received'[<<v, t, ip>>] \in Nat
        BY <3>3
      <4> QED BY <4>2, <4>3, <4>4, <4>5, <4>6
    <3> QED BY <3>1, <3>2, <3>3, <3>4 DEF IInv, TypeOK
  <2> QED BY <2>1, <2>2
<1>7. TypeOK'
  BY <1>2, <1>4, <1>5, <1>6 DEF IInv, TypeOK
<1> QED BY <1>3, <1>4, <1>6, <1>7 DEF IInv

\* The end of an iteration: the resend buffers are emptied, and the clock may
\* be read.
LEMMA IterationStep ==
    ASSUME IInv, NEW w \in Workers, EndIteration(w)
    PROVE  IInv'
<1> DEFINE b == resend_buffer[w]
<1>1. PICK ok4 \in SUBSET DOMAIN resend_buffer[w]["v4"],
           ok6 \in SUBSET DOMAIN resend_buffer[w]["v6"] :
          LET buffers == resend_buffer[w]
              ok == [s \in Sockets |-> IF s = "v4" THEN ok4 ELSE ok6]
          IN
          /\ known' = [ip \in Ips |-> known[ip] \cup
                {r.id : r \in {x \in UNION {Resent(buffers[s], ok[s]) : s \in Sockets} :
                                  x.to = ip /\ x.id # NoId}}]
          /\ sent' = [e \in DOMAIN sent |-> IF e[1] = w
                THEN sent[e] + Successes(buffers[e[2]], ok[e[2]], e[3])
                ELSE sent[e]]
          /\ resend_buffer' = [resend_buffer EXCEPT ![w] =
                [s \in Sockets |-> left_after_resend(buffers[s])]]
  BY DEF EndIteration
<1> DEFINE ok == [s \in Sockets |-> IF s = "v4" THEN ok4 ELSE ok6]
<1>2. \A s \in Sockets : ok[s] \in SUBSET DOMAIN b[s]
  BY DEF Sockets
<1>3. \A s \in Sockets : b[s] \in Seq(Response)
  BY DEF IInv, TypeOK
<1>4. /\ now' = now /\ auto_banned' = auto_banned /\ received' = received /\ blamed' = blamed
      /\ seconds_since_start' = [seconds_since_start EXCEPT ![w] =
            IF iter_counter[w] = 0 THEN now ELSE @]
      /\ iter_counter' = [iter_counter EXCEPT ![w] = (@ + 1) % ElapsedUpdatePeriod]
  BY DEF EndIteration
<1>5. iter_counter' \in [Workers -> 0..ElapsedUpdatePeriod - 1]
  BY <1>4, UdpSocketAssumption DEF IInv, TypeOK
<1>6. seconds_since_start' \in [Workers -> Nat] /\ ClocksLag'
  BY <1>4, UdpSocketAssumption DEF IInv, TypeOK, ClocksLag
<1>7. \A ip \in Ips : \A id \in known'[ip] : GoodId(id, ip, now)
  <2> SUFFICES ASSUME NEW ip \in Ips, NEW id \in known'[ip] PROVE GoodId(id, ip, now)
    OBVIOUS
  <2>1. known'[ip] = known[ip] \cup
            {r.id : r \in {x \in UNION {Resent(b[s], ok[s]) : s \in Sockets} :
                              x.to = ip /\ x.id # NoId}}
    BY <1>1
  <2>2. CASE id \in known[ip]
    BY <2>2 DEF IInv, IdsGood
  <2>3. CASE id \notin known[ip]
    <3>1. PICK x \in UNION {Resent(b[s], ok[s]) : s \in Sockets} :
             x.to = ip /\ x.id # NoId /\ id = x.id
      BY <2>1, <2>3
    <3>2. PICK s \in Sockets : x \in Resent(b[s], ok[s])
      BY <3>1
    <3>3. PICK i \in ok[s] : x = b[s][i]
      BY <3>2 DEF Resent
    <3>4. i \in DOMAIN b[s]
      BY <1>2, <3>3
    <3> QED BY <3>1, <3>3, <3>4 DEF IInv, BuffersGood
  <2> QED BY <2>2, <2>3
<1>8. known' \in [Ips -> SUBSET ConnectionId]
  <2>1. known' = [ip \in Ips |-> known'[ip]]
    BY <1>1
  <2> QED BY <1>7, <2>1 DEF GoodId
<1>9. \A v \in Workers, t \in Sockets :
          resend_buffer'[v][t] = IF v = w THEN << >> ELSE resend_buffer[v][t]
  BY <1>1 DEF IInv, TypeOK, left_after_resend
<1>10. resend_buffer' \in [Workers -> [Sockets -> Seq(Response)]]
  <2>1. [s \in Sockets |-> left_after_resend(b[s])] \in [Sockets -> Seq(Response)]
    BY DEF left_after_resend
  <2> QED BY <1>1, <2>1 DEF IInv, TypeOK
<1>11. \A v \in Workers, t \in Sockets, ip \in Ips :
          /\ sent'[<<v, t, ip>>] \in Nat
          /\ sent'[<<v, t, ip>>] + Cardinality(Waiting(resend_buffer'[v][t], ip))
                <= received[<<v, t, ip>>]
  <2> SUFFICES ASSUME NEW v \in Workers, NEW t \in Sockets, NEW ip \in Ips
               PROVE  /\ sent'[<<v, t, ip>>] \in Nat
                      /\ sent'[<<v, t, ip>>] + Cardinality(Waiting(resend_buffer'[v][t], ip))
                            <= received[<<v, t, ip>>]
    OBVIOUS
  <2>1. /\ sent[<<v, t, ip>>] + Cardinality(Waiting(resend_buffer[v][t], ip))
              <= received[<<v, t, ip>>]
        /\ sent[<<v, t, ip>>] \in Nat /\ received[<<v, t, ip>>] \in Nat
    BY DEF IInv, TypeOK, AnswersWithinRequests, Waiting
  <2>2. sent'[<<v, t, ip>>] = IF v = w THEN sent[<<v, t, ip>>] + Successes(b[t], ok[t], ip)
                              ELSE sent[<<v, t, ip>>]
    BY <1>1 DEF IInv, TypeOK
  <2>3. resend_buffer[v][t] \in Seq(Response)
    BY DEF IInv, TypeOK
  <2>4. Cardinality(Waiting(resend_buffer[v][t], ip)) \in Nat
    BY <2>3, WaitingFinite
  <2>5. CASE v # w
    BY <1>9, <2>1, <2>2, <2>4, <2>5
  <2>6. CASE v = w
    <3>1. /\ Successes(b[t], ok[t], ip) \in Nat
          /\ Successes(b[t], ok[t], ip) <= Cardinality(Waiting(b[t], ip))
      BY <1>2, <1>3, SuccessesWait
    <3>2. resend_buffer'[v][t] = << >>
      BY <1>9, <2>6
    <3>3. Waiting(<< >>, ip) = {}
      BY DEF Waiting
    <3>4. Cardinality(Waiting(<< >>, ip)) = 0
      BY <3>3, FS_EmptySet
    <3> QED BY <2>1, <2>2, <2>4, <2>6, <3>1, <3>2, <3>4
  <2> QED BY <2>5, <2>6
<1>12. sent' \in [Workers \X Sockets \X Ips -> Nat]
  <2>1. DOMAIN sent = Workers \X Sockets \X Ips
    BY DEF IInv, TypeOK
  <2>2. sent' = [e \in Workers \X Sockets \X Ips |-> sent'[e]]
    BY <1>1, <2>1
  <2>3. \A e \in Workers \X Sockets \X Ips : sent'[e] \in Nat
    BY <1>11
  <2> QED BY <2>2, <2>3
<1>13. TypeOK'
  BY <1>4, <1>5, <1>6, <1>8, <1>10, <1>12 DEF IInv, TypeOK
<1>14. IdsGood' /\ OnlySendersBlamed'
  BY <1>4, <1>7 DEF IInv, IdsGood, OnlySendersBlamed
<1>15. BuffersGood'
  <2> SUFFICES ASSUME NEW v \in Workers, NEW t \in Sockets,
                      NEW i \in DOMAIN resend_buffer'[v][t],
                      resend_buffer'[v][t][i].id # NoId
               PROVE  GoodId(resend_buffer'[v][t][i].id, resend_buffer'[v][t][i].to, now')
    BY DEF BuffersGood
  <2>1. v # w /\ resend_buffer'[v][t] = resend_buffer[v][t]
    BY <1>9
  <2> QED BY <1>4, <2>1 DEF IInv, BuffersGood
<1>16. AnswersWithinRequests'
  BY <1>4, <1>11 DEF AnswersWithinRequests, Waiting
<1> QED BY <1>6, <1>13, <1>14, <1>15, <1>16 DEF IInv

LEMMA NextStep == ASSUME IInv, [Next]_vars PROVE IInv'
<1>1. ASSUME NEW w \in Workers, NEW s \in Sockets, Datagrams(w, s) PROVE IInv'
  <2>1. PICK sender \in Ips, src \in Ips, kind \in Kinds, bad \in BOOLEAN :
        \E id \in known[sender] \cup {NoId} :
          LET d == [sender |-> sender, src |-> src, kind |-> kind, id |-> id,
                    bad_peer_id |-> bad]
          IN  SomeDatagram(d) /\ Receive(w, s, d)
    BY <1>1 DEF Datagrams
  <2>2. PICK id \in known[sender] \cup {NoId} :
          LET d == [sender |-> sender, src |-> src, kind |-> kind, id |-> id,
                    bad_peer_id |-> bad]
          IN  SomeDatagram(d) /\ Receive(w, s, d)
    BY <2>1
  <2> DEFINE d == [sender |-> sender, src |-> src, kind |-> kind, id |-> id,
                   bad_peer_id |-> bad]
  <2>3. d \in Datagram /\ d.sender = sender /\ d.id = id
    BY DEF Datagram, IInv, TypeOK
  <2>4. Receive(w, s, d)
    BY <2>2
  <2> HIDE DEF d
  <2>5. d.id # NoId => d.id \in known[d.sender]
    BY <2>3
  <2> QED BY <2>3, <2>4, <2>5, ReceiveStep
<1>2. ASSUME NEW w \in Workers, EndIteration(w) PROVE IInv'
  BY <1>2, IterationStep
<1>3. ASSUME NEW ip \in Ips, AutoBanEnds(ip) PROVE IInv'
  <2>1. TypeOK'
    BY <1>3 DEF AutoBanEnds, IInv, TypeOK
  <2>2. ClocksLag' /\ IdsGood' /\ BuffersGood' /\ OnlySendersBlamed' /\ AnswersWithinRequests'
    BY <1>3 DEF AutoBanEnds, IInv, ClocksLag, IdsGood, BuffersGood, OnlySendersBlamed,
                AnswersWithinRequests
  <2> QED BY <2>1, <2>2 DEF IInv
<1>4. CASE Tick
  <2>1. \A id, ip : GoodId(id, ip, now) => GoodId(id, ip, now')
    BY <1>4 DEF Tick, GoodId, IInv, TypeOK, ConnectionId
  <2>2. TypeOK' /\ ClocksLag'
    BY <1>4, UdpSocketAssumption DEF Tick, IInv, TypeOK, ClocksLag
  <2>3. IdsGood' /\ BuffersGood'
    BY <1>4, <2>1 DEF Tick, IInv, IdsGood, BuffersGood
  <2>4. OnlySendersBlamed' /\ AnswersWithinRequests'
    BY <1>4 DEF Tick, IInv, OnlySendersBlamed, AnswersWithinRequests
  <2> QED BY <2>2, <2>3, <2>4 DEF IInv
<1>5. CASE UNCHANGED vars
  BY <1>5 DEF vars, IInv, TypeOK, ClocksLag, IdsGood, BuffersGood, OnlySendersBlamed,
              AnswersWithinRequests
<1> QED BY <1>1, <1>2, <1>3, <1>4, <1>5 DEF Next

LEMMA Invariant == Spec => []IInv
<1>1. Init => IInv
  BY InitIInv
<1>2. IInv /\ [Next]_vars => IInv'
  BY NextStep
<1> QED BY <1>1, <1>2, PTL DEF Spec

----------------------------------------------------------------------------
(***************************************************************************)
(* The theorems                                                            *)
(***************************************************************************)
THEOREM SocketTypeCorrect == Spec => []TypeOK
<1>1. IInv => TypeOK
  BY DEF IInv
<1> QED BY <1>1, Invariant, PTL

\* connection_id_valid: an id outlives max_connection_age by no more than the
\* lag of one cached clock, whichever worker issued it and whichever judges.
THEOREM SocketStaleIdRefused == Spec => []StaleIdRefused
<1>1. IInv => StaleIdRefused
  <2> SUFFICES ASSUME IInv, NEW w \in Workers, NEW ip \in Ips, NEW id \in known[ip],
                      connection_id_valid(w, ip, id)
               PROVE  now < id.issued + max_connection_age + MaxLag
    BY DEF StaleIdRefused
  <2>1. GoodId(id, ip, now) /\ now \in Nat /\ seconds_since_start[w] \in Nat
    BY DEF IInv, IdsGood, TypeOK
  <2>2. now <= seconds_since_start[w] + MaxLag
    BY DEF IInv, ClocksLag
  <2> QED BY <2>1, <2>2, UdpSocketAssumption DEF GoodId, ConnectionId, connection_id_valid
<1> QED BY <1>1, Invariant, PTL

\* connection_id_valid: no worker refuses an id that is not about to expire,
\* although it may come from the future of the worker's own clock.
THEOREM SocketFreshIdAccepted == Spec => []FreshIdAccepted
<1>1. IInv => FreshIdAccepted
  <2> SUFFICES ASSUME IInv, NEW w \in Workers, NEW ip \in Ips, NEW id \in known[ip],
                      now + MaxLag < id.issued + max_connection_age
               PROVE  connection_id_valid(w, ip, id)
    BY DEF FreshIdAccepted
  <2>1. GoodId(id, ip, now) /\ now \in Nat /\ seconds_since_start[w] \in Nat
    BY DEF IInv, IdsGood, TypeOK
  <2>2. seconds_since_start[w] <= now /\ now <= seconds_since_start[w] + MaxLag
    BY DEF IInv, ClocksLag
  <2> QED BY <2>1, <2>2, UdpSocketAssumption DEF GoodId, ConnectionId, connection_id_valid
<1> QED BY <1>1, Invariant, PTL

\* run_security_checks: nobody is blamed for a datagram that another sent.
THEOREM SocketOnlySendersBlamed == Spec => []OnlySendersBlamed
<1>1. IInv => OnlySendersBlamed
  BY DEF IInv
<1> QED BY <1>1, Invariant, PTL

\* send_response and resend_failed: the tracker sends an address no more
\* datagrams than claim to come from it, for any sizes of the resend buffers.
THEOREM SocketAnswersWithinRequests == Spec => []AnswersWithinRequests
<1>1. IInv => AnswersWithinRequests
  BY DEF IInv
<1> QED BY <1>1, Invariant, PTL
============================================================================
