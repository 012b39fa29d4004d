--------------------------- MODULE ReceiverProofs ---------------------------
(***************************************************************************)
(* Proofs about Receiver, for all threads, messages, chunk sizes and       *)
(* callers: messages are reassembled from their own chunks in order,       *)
(* nobody sleeps through one, and the receiving side implements the safe   *)
(* part of Mailbox.                                                        *)
(***************************************************************************)
EXTENDS Receiver, FiniteSetTheorems, SequenceTheorems, WellFoundedInduction, TLAPS

-----------------------------------------------------------------------------
(***************************************************************************)
(* What the program must not do for this: send a message of length 0,      *)
(* which is sent as no chunk, or start a message when the receiver cannot  *)
(* tell its session from that of one which is still being sent, on its way *)
(* or incomplete.  (comm_node_get_new_sid counts on for ever, but a        *)
(* receiver only sees the number modulo WIDTH.)                            *)
(***************************************************************************)
NoEmptyMessage == \A t \in Thread : \A k \in DOMAIN MsgLen[t] : MsgLen[t][k] > 0

InUse(i) ==
  \/ data_msg_map[i] # NULL
  \/ \E s \in Source : \E x \in DOMAIN net[s] : net[s][x].sid = i
  \/ \E t \in Thread : Sending(t) /\ WireSid(SrcOf[t], snd[t].sid) = i

SessionsFree ==
  \A t \in Thread : (~Sending(t) /\ snd[t].msg < Len(MsgLen[t])) =>
    ~InUse(WireSid(SrcOf[t], counter[SrcOf[t]]))

(***************************************************************************)
(* That is so when no node sends more than WIDTH messages in all.          *)
(***************************************************************************)
Messages(s) == {m \in Thread \X Nat : SrcOf[m[1]] = s /\ m[2] \in DOMAIN MsgLen[m[1]]}

FewMessages == \A s \in Source : IsFiniteSet(Messages(s)) /\ Cardinality(Messages(s)) <= WIDTH

-----------------------------------------------------------------------------
(***************************************************************************)
(* Bytes of the first j chunks of a message of length L; a message and the *)
(* places of its chunks: <<t, k, j>> is chunk j of message k of thread t.  *)
(***************************************************************************)
Bytes(L, j) == IF j * CHUNK_SZ < L THEN j * CHUNK_SZ ELSE L

Place == {p \in Part : p[2] \in DOMAIN MsgLen[p[1]] /\ p[3] * CHUNK_SZ < MsgLen[p[1]][p[2]]}

(***************************************************************************)
(* Message k of t when its first j chunks are there.                       *)
(***************************************************************************)
DataOf(t, k, j) ==
  [src_id |-> SrcOf[t], len |-> MsgLen[t][k], recvd |-> Bytes(MsgLen[t][k], j), seq |-> j - 1,
   parts |-> [x \in 1 .. j |-> <<t, k, x - 1>>]]

ChunkOf(f, p) ==
  LET L == MsgLen[p[1]][p[2]]
  IN  [src_id |-> SrcOf[p[1]], sid |-> f[<<p[1], p[2]>>], tot_len |-> L, seq |-> p[3],
       len |-> Bytes(L, p[3] + 1) - Bytes(L, p[3]), part |-> p]

(***************************************************************************)
(* f gives the session of every message that was begun: no two that are    *)
(* not delivered have the same.                                            *)
(***************************************************************************)
Live == {m \in Thread \X Nat : delivered[m[1]] < m[2] /\ m[2] <= snd[m[1]].msg}

SidInv(f) ==
  /\ f \in [Thread \X Nat -> Sid]
  /\ \A m, n \in Live : f[m] = f[n] => m = n
  /\ \A t \in Thread : snd[t].msg > 0 =>
       f[<<t, snd[t].msg>>] = WireSid(SrcOf[t], snd[t].sid)

(***************************************************************************)
(* A sender is where its counts say.                                       *)
(***************************************************************************)
SendInv ==
  /\ \A t \in Thread : delivered[t] <= snd[t].msg
  /\ \A t \in Thread : snd[t].msg > 0 =>
       snd[t].off = Bytes(MsgLen[t][snd[t].msg], snd[t].seq)

(***************************************************************************)
(* Chunks under way are what was sent and is not received yet, in order.   *)
(* Next(f, t): how many chunks of the message that t delivers next are     *)
(* with the receiver.                                                      *)
(***************************************************************************)
Before(p, q) == p[2] < q[2] \/ (p[2] = q[2] /\ p[3] < q[3])

Sent(p) == p[2] < snd[p[1]].msg \/ (p[2] = snd[p[1]].msg /\ p[3] < snd[p[1]].seq)

Open(f, t) == delivered[t] < snd[t].msg /\ data_msg_map[f[<<t, delivered[t] + 1>>]] # NULL

Have(f, t) == IF Open(f, t) THEN Len(data_msg_map[f[<<t, delivered[t] + 1>>]].parts) ELSE 0

Received(f, p) == p[2] <= delivered[p[1]] \/ (p[2] = delivered[p[1]] + 1 /\ p[3] < Have(f, p[1]))

InNet(p) == \E x \in DOMAIN net[SrcOf[p[1]]] : net[SrcOf[p[1]]][x].part = p

ChunksInv(f) ==
  \A s \in Source : \A x \in DOMAIN net[s] :
    /\ net[s][x].part \in Place
    /\ SrcOf[net[s][x].part[1]] = s
    /\ net[s][x] = ChunkOf(f, net[s][x].part)

OrderInv ==
  \A s \in Source : \A x, y \in DOMAIN net[s] :
    (x < y /\ net[s][x].part[1] = net[s][y].part[1]) => Before(net[s][x].part, net[s][y].part)

NetInv(f) ==
  \A p \in Place : (Received(f, p) => Sent(p)) /\ (InNet(p) <=> (Sent(p) /\ ~Received(f, p)))

(***************************************************************************)
(* A session holds the beginning of the message that its thread is next to *)
(* deliver, and the chunk that is being read has a session.                *)
(***************************************************************************)
Partial(d, t, k) == <<t, k, Len(d.parts)>> \in Place /\ d = DataOf(t, k, Len(d.parts))

DataInv(f) ==
  \A i \in Sid : data_msg_map[i] # NULL =>
    \E t \in Thread : /\ delivered[t] < snd[t].msg
                      /\ i = f[<<t, delivered[t] + 1>>]
                      /\ Partial(data_msg_map[i], t, delivered[t] + 1)

CurrInv == \A s \in Source : curr[s] => net[s] # <<>> /\ data_msg_map[Head(net[s]).sid] # NULL

(***************************************************************************)
(* The queues hold whole messages, the count follows their number, and a   *)
(* call that waits has nothing to take.                                    *)
(***************************************************************************)
IsWhole(d, t, k) ==
  \E n \in Nat : /\ n > 0
                 /\ (n - 1) * CHUNK_SZ < MsgLen[t][k]
                 /\ MsgLen[t][k] <= n * CHUNK_SZ
                 /\ d = DataOf(t, k, n)

QueueInv ==
  \A s \in Source : \A x \in DOMAIN recvd_data_msg_queues[s] :
    \E t \in Thread : \E k \in DOMAIN MsgLen[t] : IsWhole(recvd_data_msg_queues[s][x], t, k)

Slots(queues) == UNION {{s} \X DOMAIN queues[s] : s \in Source}

InQueues == Slots(recvd_data_msg_queues)

CountInv ==
  /\ IsFiniteSet(InQueues) /\ UnackedMatches
  /\ (empty = 0 \/ empty <= garbage)
  /\ NoLostWakeup

SessionInv(f) == SidInv(f) /\ ChunksInv(f) /\ NetInv(f) /\ DataInv(f)

CoreInv == TypeOK /\ SendInv /\ OrderInv /\ CurrInv /\ QueueInv /\ CountInv /\ AssertsHold

IInv == CoreInv /\ \E f \in [Thread \X Nat -> Sid] : SessionInv(f)

(***************************************************************************)
(* With FewMessages, the counter of a node has not come round: it is the   *)
(* number of messages begun, and their sessions are below it.              *)
(***************************************************************************)
Began == {m \in Thread \X Nat : 0 < m[2] /\ m[2] <= snd[m[1]].msg}

Started(s) == {m \in Messages(s) : 0 < m[2] /\ m[2] <= snd[m[1]].msg}

NumbersInv(f) ==
  /\ \A m \in Began : f[m][1] = SrcOf[m[1]] /\ f[m][2] < counter[SrcOf[m[1]]]
  /\ \A s \in Source : counter[s] = Cardinality(Started(s))

NInv == CoreInv /\ \E f \in [Thread \X Nat -> Sid] : SessionInv(f) /\ NumbersInv(f)

-----------------------------------------------------------------------------
(***************************************************************************)
(* Arithmetic of chunks.                                                   *)
(***************************************************************************)
LEMMA TimesMonotone ==
  ASSUME NEW C \in Nat, NEW i \in Nat, NEW j \in Nat, i <= j
  PROVE  i * C <= j * C
<1> DEFINE d == j - i
<1>1. d \in Nat /\ j = i + d
  OBVIOUS
<1>2. d * C \in Nat
  BY <1>1
<1> HIDE DEF d
<1>3. (i + d) * C = i * C + d * C
  BY <1>1
<1>4. i * C \in Nat
  OBVIOUS
<1> QED
  BY <1>1, <1>2, <1>3, <1>4

LEMMA ChunkSize == CHUNK_SZ \in Nat /\ CHUNK_SZ > 0
  BY ReceiverAssumption DEF ReceiverAssumption

LEMMA TimesChunk ==
  ASSUME NEW j \in Nat
  PROVE  /\ j * CHUNK_SZ \in Nat
         /\ (j + 1) * CHUNK_SZ = j * CHUNK_SZ + CHUNK_SZ
         /\ 0 * CHUNK_SZ = 0
  BY ChunkSize

LEMMA BytesType ==
  ASSUME NEW L \in Nat, NEW j \in Nat
  PROVE  Bytes(L, j) \in Nat /\ Bytes(L, j) <= L
  BY TimesChunk DEF Bytes

(***************************************************************************)
(* Chunk j of a message that has one: from byte j * CHUNK_SZ, a whole      *)
(* chunk or what is left.                                                  *)
(***************************************************************************)
LEMMA BytesStep ==
  ASSUME NEW L \in Nat, NEW j \in Nat, j * CHUNK_SZ < L
  PROVE  /\ Bytes(L, j) = j * CHUNK_SZ
         /\ Bytes(L, j + 1) =
              Bytes(L, j) + (IF CHUNK_SZ > L - Bytes(L, j) THEN L - Bytes(L, j) ELSE CHUNK_SZ)
         /\ Bytes(L, j + 1) = L <=> ~((j + 1) * CHUNK_SZ < L)
<1> DEFINE b == j * CHUNK_SZ
<1>1. b \in Nat /\ (j + 1) * CHUNK_SZ = b + CHUNK_SZ
  BY TimesChunk
<1>2. Bytes(L, j) = b
  BY DEF Bytes
<1>3. Bytes(L, j + 1) = IF b + CHUNK_SZ < L THEN b + CHUNK_SZ ELSE L
  BY <1>1 DEF Bytes
<1> HIDE DEF b
<1>4. (IF CHUNK_SZ > L - b THEN L - b ELSE CHUNK_SZ) = (IF b + CHUNK_SZ < L THEN b + CHUNK_SZ ELSE L) - b
  BY <1>1, ChunkSize
<1>5. Bytes(L, j + 1) \in Nat
  BY <1>1, <1>3, ChunkSize
<1> QED
  BY <1>1, <1>2, <1>3, <1>4, <1>5, ChunkSize DEF b

LEMMA MessageLength ==
  ASSUME NEW t \in Thread, NEW k \in Nat, k > 0, k <= Len(MsgLen[t])
  PROVE  k \in DOMAIN MsgLen[t] /\ MsgLen[t][k] \in Nat
  BY ReceiverAssumption DEF ReceiverAssumption

LEMMA SourceOf ==
  ASSUME NEW t \in Thread
  PROVE  SrcOf[t] \in Source
  BY ReceiverAssumption DEF ReceiverAssumption

-----------------------------------------------------------------------------
(***************************************************************************)
(* Types.                                                                  *)
(***************************************************************************)
LEMMA WireSidType ==
  ASSUME NEW s \in Source, NEW c \in Nat
  PROVE  WireSid(s, c) \in Sid
<1>1. c % WIDTH \in 0 .. WIDTH - 1
  BY ReceiverAssumption DEF ReceiverAssumption
<1> QED
  BY <1>1 DEF WireSid, Sid

LEMMA SenderType ==
  ASSUME TypeOK, NEW t \in Thread
  PROVE  /\ snd[t].msg \in Nat /\ snd[t].sid \in Nat /\ snd[t].off \in Nat /\ snd[t].seq \in Nat
         /\ snd[t].msg <= Len(MsgLen[t])
         /\ snd[t].msg > 0 => snd[t].off <= MsgLen[t][snd[t].msg]
         /\ delivered[t] \in Nat
  BY DEF TypeOK

(***************************************************************************)
(* The chunk of a thread that is sending is what is left or CHUNK_SZ.      *)
(***************************************************************************)
LEMMA ChunkTyped ==
  ASSUME TypeOK, NEW t \in Thread, Sending(t)
  PROVE  /\ ChunkLen(t) \in Nat
         /\ snd[t].off + ChunkLen(t) <= MsgLen[t][snd[t].msg]
         /\ Chunk(t) \in ChunkType
         /\ snd[t].msg \in DOMAIN MsgLen[t]
<1>1. /\ snd[t].msg \in Nat /\ snd[t].sid \in Nat /\ snd[t].off \in Nat /\ snd[t].seq \in Nat
      /\ snd[t].msg <= Len(MsgLen[t]) /\ snd[t].msg > 0
  BY SenderType DEF Sending
<1>2. snd[t].msg \in DOMAIN MsgLen[t] /\ MsgLen[t][snd[t].msg] \in Nat
  BY <1>1, MessageLength
<1> DEFINE L == MsgLen[t][snd[t].msg]
           o == snd[t].off
<1>3. o < L /\ L \in Nat /\ o \in Nat
  BY <1>1, <1>2 DEF Sending
<1>4. ChunkLen(t) = IF CHUNK_SZ > L - o THEN L - o ELSE CHUNK_SZ
  BY DEF ChunkLen
<1> HIDE DEF L, o
<1>5. ChunkLen(t) \in Nat /\ o + ChunkLen(t) <= L
  BY <1>3, <1>4, ChunkSize
<1>6. WireSid(SrcOf[t], snd[t].sid) \in Sid
  BY <1>1, SourceOf, WireSidType
<1>7. <<t, snd[t].msg, snd[t].seq>> \in Part
  BY <1>1 DEF Part
<1>8. Chunk(t) \in ChunkType
  BY <1>1, <1>2, <1>5, <1>6, <1>7, SourceOf DEF Chunk, ChunkType
<1> QED
  BY <1>2, <1>5, <1>8 DEF L, o

(***************************************************************************)
(* data_msg_push_chunk keeps a message a message.                          *)
(***************************************************************************)
LEMMA PushedType ==
  ASSUME NEW d \in Data \cup {NULL}, NEW c \in ChunkType, CanPush(d, c)
  PROVE  /\ Pushed(d, c) \in Data
         /\ Pushed(d, c).parts = Append(d.parts, c.part)
         /\ Pushed(d, c).parts[1] \in Part
         /\ Pushed(d, c).src_id = c.src_id
         /\ d \in Data
<1>1. d \in Data
  BY DEF CanPush
<1>2. c.seq \in Nat /\ c.len \in Nat /\ c.part \in Part
  BY DEF ChunkType
<1>3. d.recvd + c.len \in Nat
  BY <1>1, <1>2 DEF Data
<1>4. d.parts \in Seq(Part)
  BY <1>1 DEF Data
<1>5. Append(d.parts, c.part) \in Seq(Part) /\ Append(d.parts, c.part)[1] \in Part
  BY <1>2, <1>4
<1>6. Pushed(d, c) = [d EXCEPT !.seq = c.seq, !.recvd = d.recvd + c.len,
                               !.parts = Append(d.parts, c.part)]
  BY DEF Pushed
<1>7. Pushed(d, c) = [src_id |-> d.src_id, len |-> d.len, recvd |-> d.recvd + c.len,
                      seq |-> c.seq, parts |-> Append(d.parts, c.part)]
  BY <1>1, <1>6 DEF Data
<1>8. d.src_id \in Source /\ d.len \in Nat
  BY <1>1 DEF Data
<1>9. Pushed(d, c) \in Data
  BY <1>2, <1>3, <1>5, <1>7, <1>8 DEF Data
<1> QED
  BY <1>1, <1>5, <1>7, <1>9 DEF CanPush

LEMMA HeadChunk ==
  ASSUME TypeOK, NEW s \in Source, net[s] # <<>>
  PROVE  /\ Head(net[s]) \in ChunkType
         /\ Head(net[s]) = net[s][1]
         /\ data_msg_map[Head(net[s]).sid] \in Data \cup {NULL}
         /\ Head(net[s]).sid \in Sid
<1>1. net[s] \in Seq(ChunkType)
  BY DEF TypeOK
<1>2. Head(net[s]) \in ChunkType /\ Head(net[s]) = net[s][1]
  BY <1>1
<1>3. Head(net[s]).sid \in Sid
  BY <1>2 DEF ChunkType
<1> QED
  BY <1>2, <1>3 DEF TypeOK

(***************************************************************************)
(* First is the smallest source with a message.                            *)
(***************************************************************************)
LEMMA FirstIsSource ==
  ASSUME NonEmpty # {}
  PROVE  First \in NonEmpty
<1>1. NonEmpty \subseteq Nat
  BY ReceiverAssumption DEF ReceiverAssumption, NonEmpty
<1>2. \E x \in NonEmpty : \A y \in NonEmpty : ~(<<y, x>> \in OpToRel(<, Nat))
  BY <1>1, WFMin, NatLessThanWellFounded
<1>3. PICK x \in NonEmpty : \A y \in NonEmpty : ~(<<y, x>> \in OpToRel(<, Nat))
  BY <1>2
<1>4. \A y \in NonEmpty : x <= y
  <2> SUFFICES ASSUME NEW y \in NonEmpty PROVE x <= y
    OBVIOUS
  <2>1. ~(y < x)
    BY <1>1, <1>3 DEF OpToRel
  <2> QED
    BY <1>1, <2>1
<1> QED
  BY <1>4 DEF First

(***************************************************************************)
(* A message in a queue has a first part.                                  *)
(***************************************************************************)
LEMMA WholeParts ==
  ASSUME NEW t \in Thread, NEW k \in Nat, NEW d, IsWhole(d, t, k)
  PROVE  d.parts[1] = <<t, k, 0>>
<1>1. PICK n \in Nat : n > 0 /\ d = DataOf(t, k, n)
  BY DEF IsWhole
<1> QED
  BY <1>1 DEF DataOf

LEMMA QueueHead ==
  ASSUME TypeOK, QueueInv, NEW s \in NonEmpty
  PROVE  /\ s \in Source
         /\ \E t \in Thread : \E k \in DOMAIN MsgLen[t] :
              IsWhole(Head(recvd_data_msg_queues[s]), t, k) /\ k \in Nat
         /\ Head(recvd_data_msg_queues[s]).parts[1] \in Part
<1>1. s \in Source /\ recvd_data_msg_queues[s] # <<>> /\ recvd_data_msg_queues[s] \in Seq(Data)
  BY DEF NonEmpty, TypeOK
<1>2. 1 \in DOMAIN recvd_data_msg_queues[s] /\ Head(recvd_data_msg_queues[s]) = recvd_data_msg_queues[s][1]
  BY <1>1
<1>3. PICK t \in Thread : \E k \in DOMAIN MsgLen[t] : IsWhole(Head(recvd_data_msg_queues[s]), t, k)
  BY <1>1, <1>2 DEF QueueInv
<1>6. PICK k \in DOMAIN MsgLen[t] : IsWhole(Head(recvd_data_msg_queues[s]), t, k)
  BY <1>3
<1>4. k \in Nat
  BY ReceiverAssumption DEF ReceiverAssumption
<1>5. Head(recvd_data_msg_queues[s]).parts[1] = <<t, k, 0>>
  BY <1>4, <1>6, WholeParts
<1>7. <<t, k, 0>> \in Part
  BY <1>4 DEF Part
<1>8. \E tt \in Thread : \E kk \in DOMAIN MsgLen[tt] :
        IsWhole(Head(recvd_data_msg_queues[s]), tt, kk) /\ kk \in Nat
  BY <1>4, <1>6
<1> QED
  BY <1>1, <1>5, <1>7, <1>8

(***************************************************************************)
(* One step at a time: what each action does to the types.                 *)
(***************************************************************************)
LEMMA SendTypes ==
  ASSUME TypeOK, NEW t \in Thread, comm_node_get_new_sid(t) \/ ioman_send_chunk(t)
  PROVE  TypeOK'
<1>1. CASE comm_node_get_new_sid(t)
  <2>1. /\ snd[t].msg < Len(MsgLen[t])
        /\ snd' = [snd EXCEPT ![t] = [msg |-> snd[t].msg + 1, sid |-> counter[SrcOf[t]], off |-> 0, seq |-> 0]]
        /\ counter' = [counter EXCEPT ![SrcOf[t]] = counter[SrcOf[t]] + 1]
    BY <1>1 DEF comm_node_get_new_sid
  <2>2. /\ snd[t].msg \in Nat /\ counter \in [Source -> Nat] /\ counter[SrcOf[t]] \in Nat
        /\ SrcOf[t] \in Source
    BY SenderType, SourceOf DEF TypeOK
  <2>3. counter' \in [Source -> Nat]
    BY <2>1, <2>2
  <2>4. snd' \in [Thread -> [msg : Nat, sid : Nat, off : Nat, seq : Nat]]
    BY <2>1, <2>2 DEF TypeOK
  <2>5. \A u \in Thread : /\ snd'[u].msg <= Len(MsgLen[u])
                          /\ snd'[u].msg > 0 => snd'[u].off <= MsgLen[u][snd'[u].msg]
    <3> SUFFICES ASSUME NEW u \in Thread
                 PROVE  /\ snd'[u].msg <= Len(MsgLen[u])
                        /\ snd'[u].msg > 0 => snd'[u].off <= MsgLen[u][snd'[u].msg]
      OBVIOUS
    <3>1. CASE u = t
      <4>1. snd'[t].msg = snd[t].msg + 1 /\ snd'[t].off = 0
        BY <2>1, <2>2 DEF TypeOK
      <4>2. snd[t].msg + 1 <= Len(MsgLen[t]) /\ snd[t].msg + 1 > 0 /\ snd[t].msg + 1 \in Nat
        BY <2>1, <2>2, ReceiverAssumption DEF ReceiverAssumption
      <4>3. MsgLen[t][snd[t].msg + 1] \in Nat
        BY <4>2, MessageLength
      <4> QED
        BY <3>1, <4>1, <4>2, <4>3
    <3>2. CASE u # t
      BY <2>1, <3>2 DEF TypeOK
    <3> QED
      BY <3>1, <3>2
  <2> QED
    BY <1>1, <2>3, <2>4, <2>5 DEF TypeOK, comm_node_get_new_sid, cntvars
<1>2. CASE ioman_send_chunk(t)
  <2>1. /\ Sending(t)
        /\ net' = [net EXCEPT ![SrcOf[t]] = Append(net[SrcOf[t]], Chunk(t))]
        /\ snd' = [snd EXCEPT ![t] = [snd[t] EXCEPT !.off = snd[t].off + ChunkLen(t),
                                                    !.seq = snd[t].seq + 1]]
    BY <1>2 DEF ioman_send_chunk, TypeOK
  <2>2. /\ snd[t].msg \in Nat /\ snd[t].sid \in Nat /\ snd[t].off \in Nat /\ snd[t].seq \in Nat
        /\ snd[t].msg <= Len(MsgLen[t])
    BY SenderType
  <2>3. /\ ChunkLen(t) \in Nat
        /\ snd[t].off + ChunkLen(t) <= MsgLen[t][snd[t].msg]
        /\ Chunk(t) \in ChunkType
    BY <2>1, ChunkTyped
  <2>4. net' \in [Source -> Seq(ChunkType)]
    <3>1. net \in [Source -> Seq(ChunkType)] /\ SrcOf[t] \in Source
      BY SourceOf DEF TypeOK
    <3>2. Append(net[SrcOf[t]], Chunk(t)) \in Seq(ChunkType)
      BY <3>1, <2>3
    <3> QED
      BY <3>1, <3>2, <2>1
  <2>5. snd'[t] = [msg |-> snd[t].msg, sid |-> snd[t].sid, off |-> snd[t].off + ChunkLen(t),
                   seq |-> snd[t].seq + 1]
    BY <2>1 DEF TypeOK
  <2>6. snd' \in [Thread -> [msg : Nat, sid : Nat, off : Nat, seq : Nat]]
    <3>1. snd[t].off + ChunkLen(t) \in Nat /\ snd[t].seq + 1 \in Nat
      BY <2>2, <2>3, SMTT(30)
    <3>2. snd'[t] \in [msg : Nat, sid : Nat, off : Nat, seq : Nat]
      BY <3>1, <2>5, <2>2
    <3>3. \A u \in Thread : u # t => snd'[u] = snd[u]
      BY <2>1 DEF TypeOK
    <3>4. DOMAIN snd' = Thread /\ snd' = [u \in Thread |-> snd'[u]]
      BY <2>1 DEF TypeOK
    <3> QED
      BY <3>2, <3>3, <3>4 DEF TypeOK
  <2>7. \A u \in Thread : /\ snd'[u].msg <= Len(MsgLen[u])
                          /\ snd'[u].msg > 0 => snd'[u].off <= MsgLen[u][snd'[u].msg]
    <3> SUFFICES ASSUME NEW u \in Thread
                 PROVE  /\ snd'[u].msg <= Len(MsgLen[u])
                        /\ snd'[u].msg > 0 => snd'[u].off <= MsgLen[u][snd'[u].msg]
      OBVIOUS
    <3>1. CASE u = t
      BY <3>1, <2>2, <2>3, <2>5
    <3>2. CASE u # t
      BY <2>1, <3>2 DEF TypeOK
    <3> QED
      BY <3>1, <3>2
  <2> QED
    BY <1>2, <2>4, <2>6, <2>7 DEF TypeOK, ioman_send_chunk, cntvars
<1> QED
  BY <1>1, <1>2

LEMMA SetupTypes ==
  ASSUME TypeOK, NEW s \in Source, comm_node_setup_chunk(s)
  PROVE  TypeOK'
<1> DEFINE c == Head(net[s])
<1>1. /\ net[s] # <<>>
      /\ data_msg_map' = [data_msg_map EXCEPT ![c.sid] =
                            IF data_msg_map[c.sid] = NULL THEN data_msg_create(c) ELSE data_msg_map[c.sid]]
      /\ curr' = [curr EXCEPT ![s] = TRUE]
  BY DEF comm_node_setup_chunk
<1>2. c \in ChunkType /\ data_msg_map[c.sid] \in Data \cup {NULL} /\ c.sid \in Sid
  BY <1>1, HeadChunk
<1> HIDE DEF c
<1>3. data_msg_create(c) \in Data
  <2>1. c.src_id \in Source /\ c.tot_len \in Nat
    BY <1>2 DEF ChunkType
  <2>2. <<>> \in Seq(Part) /\ 0 \in Nat /\ -1 \in Int
    OBVIOUS
  <2> QED
    BY <2>1, <2>2 DEF data_msg_create, Data
<1>4. data_msg_map' \in [Sid -> Data \cup {NULL}]
  BY <1>1, <1>2, <1>3 DEF TypeOK
<1>5. curr' \in [Source -> BOOLEAN]
  BY <1>1 DEF TypeOK
<1> QED
  BY <1>4, <1>5 DEF TypeOK, comm_node_setup_chunk, sndvars, cntvars

LEMMA HandleTypes ==
  ASSUME TypeOK, NEW s \in Source, comm_node_handle_chunk(s), net[s] # <<>>
  PROVE  TypeOK'
<1> DEFINE c == Head(net[s])
           old == data_msg_map[c.sid]
           data == Pushed(old, c)
<1>1. c \in ChunkType /\ old \in Data \cup {NULL} /\ c.sid \in Sid
  BY HeadChunk
<1>2. /\ net' = [net EXCEPT ![s] = Tail(net[s])]
      /\ curr' = [curr EXCEPT ![s] = FALSE]
      /\ UNCHANGED <<counter, snd, garbage, empty, taken>>
  BY DEF comm_node_handle_chunk, sndvars
<1>3. \/ /\ UNCHANGED <<data_msg_map, recvd_data_msg_queues, unacked, call, delivered>>
         /\ dead' = "assert"
      \/ /\ CanPush(old, c)
         /\ data_msg_map' = [data_msg_map EXCEPT ![c.sid] = data]
         /\ UNCHANGED <<recvd_data_msg_queues, unacked, call, delivered, dead>>
      \/ /\ CanPush(old, c)
         /\ data_msg_map' = [data_msg_map EXCEPT ![c.sid] = NULL]
         /\ recvd_data_msg_queues' =
              [recvd_data_msg_queues EXCEPT ![data.src_id] = Append(recvd_data_msg_queues[data.src_id], data)]
         /\ unacked' = unacked + 1
         /\ call' = [r \in Caller |-> "call"]
         /\ delivered' = [delivered EXCEPT ![data.parts[1][1]] = delivered[data.parts[1][1]] + 1]
         /\ dead' = dead
  BY DEF comm_node_handle_chunk, comm_node_deliver_chunk, cntvars, WakeUp, Broadcast
<1>4. CanPush(old, c) => /\ data \in Data /\ data.src_id \in Source /\ data.parts[1][1] \in Thread
  <2> SUFFICES ASSUME CanPush(old, c)
               PROVE  data \in Data /\ data.src_id \in Source /\ data.parts[1][1] \in Thread
    OBVIOUS
  <2> HIDE DEF c, old
  <2>1. data \in Data /\ data.parts[1] \in Part
    BY <1>1, PushedType
  <2> HIDE DEF data
  <2> QED
    BY <2>1 DEF Data, Part
<1> HIDE DEF c, old, data
<1>5. net' \in [Source -> Seq(ChunkType)]
  <2>1. net \in [Source -> Seq(ChunkType)] /\ net[s] # <<>>
    BY DEF TypeOK
  <2>2. Tail(net[s]) \in Seq(ChunkType)
    BY <2>1
  <2> QED
    BY <1>2, <2>1, <2>2
<1>6. curr' \in [Source -> BOOLEAN]
  BY <1>2 DEF TypeOK
<1>7. data_msg_map' \in [Sid -> Data \cup {NULL}]
  BY <1>1, <1>3, <1>4 DEF TypeOK
<1>8. recvd_data_msg_queues' \in [Source -> Seq(Data)]
  <2>1. recvd_data_msg_queues \in [Source -> Seq(Data)]
    BY DEF TypeOK
  <2>2. CanPush(old, c) => Append(recvd_data_msg_queues[data.src_id], data) \in Seq(Data)
    BY <1>4, <2>1
  <2> QED
    BY <1>3, <1>4, <2>1, <2>2
<1>9. unacked' \in Int
  BY <1>3 DEF TypeOK
<1>10. call' \in [Caller -> {"call", "cond_wait"}]
  BY <1>3 DEF TypeOK
<1>11. delivered' \in [Thread -> Nat]
  <2> DEFINE t == data.parts[1][1]
  <2>1. CanPush(old, c) => t \in Thread
    BY <1>4
  <2>2. delivered' = delivered \/ (CanPush(old, c) /\ delivered' = [delivered EXCEPT ![t] = delivered[t] + 1])
    BY <1>3
  <2> HIDE DEF t
  <2>3. delivered \in [Thread -> Nat]
    BY DEF TypeOK
  <2>4. CASE delivered' = delivered
    BY <2>3, <2>4
  <2>5. CASE t \in Thread /\ delivered' = [delivered EXCEPT ![t] = delivered[t] + 1]
    <3>1. delivered[t] + 1 \in Nat
      BY <2>3, <2>5
    <3> QED
      BY <2>3, <2>5, <3>1
  <2> QED
    BY <2>1, <2>2, <2>4, <2>5
<1>12. dead' \in {"no", "assert", "segv"}
  BY <1>3 DEF TypeOK
<1> QED
  BY <1>2, <1>5, <1>6, <1>7, <1>8, <1>9, <1>10, <1>11, <1>12 DEF TypeOK

LEMMA ReceiveTypes ==
  ASSUME TypeOK, QueueInv, NEW r \in Caller,
         comm_node_recv_data(r) \/ comm_node_recv_any_data(r) \/ SpuriousWakeup(r)
  PROVE  TypeOK'
<1>1. UNCHANGED <<counter, snd, net, curr, data_msg_map, delivered, garbage>>
  BY DEF comm_node_recv_data, comm_node_recv_any_data, SpuriousWakeup, sndvars, cntvars
<1>2. \/ UNCHANGED <<recvd_data_msg_queues, taken>>
      \/ NonEmpty # {} /\ Take(First)
  BY DEF comm_node_recv_data, comm_node_recv_any_data, SpuriousWakeup
<1>3. unacked' = unacked \/ unacked' = unacked - 1
  BY DEF comm_node_recv_data, comm_node_recv_any_data, SpuriousWakeup, cntvars
<1>4. empty' = empty \/ empty' = empty + 1
  BY DEF comm_node_recv_data, comm_node_recv_any_data, SpuriousWakeup, cntvars
<1>5. call' = call \/ call' = [call EXCEPT ![r] = "cond_wait"] \/ call' = [call EXCEPT ![r] = "call"]
  BY DEF comm_node_recv_data, comm_node_recv_any_data, SpuriousWakeup
<1>6. dead' = dead \/ dead' = "segv"
  BY DEF comm_node_recv_data, comm_node_recv_any_data, SpuriousWakeup
<1>7. unacked' \in Int
  BY <1>3 DEF TypeOK
<1>9. empty' \in Nat
  BY <1>4 DEF TypeOK
<1>10. call' \in [Caller -> {"call", "cond_wait"}]
  BY <1>5 DEF TypeOK
<1>11. dead' \in {"no", "assert", "segv"}
  BY <1>6 DEF TypeOK
<1>8. recvd_data_msg_queues' \in [Source -> Seq(Data)] /\ taken' \subseteq Part
  <2>1. CASE UNCHANGED <<recvd_data_msg_queues, taken>>
    BY <2>1 DEF TypeOK
  <2>2. CASE NonEmpty # {} /\ Take(First)
    <3>1. First \in NonEmpty
      BY <2>2, FirstIsSource
    <3> DEFINE z == First
    <3> HIDE DEF z
    <3>2. z \in NonEmpty /\ Take(z)
      BY <2>2, <3>1 DEF z
    <3>3. z \in Source /\ Head(recvd_data_msg_queues[z]).parts[1] \in Part
      BY <3>2, QueueHead
    <3>4. recvd_data_msg_queues[z] \in Seq(Data) /\ recvd_data_msg_queues[z] # <<>>
      BY <3>2 DEF NonEmpty, TypeOK
    <3>5. Tail(recvd_data_msg_queues[z]) \in Seq(Data)
      BY <3>4
    <3> QED
      BY <3>2, <3>3, <3>5 DEF Take, TypeOK
  <2> QED
    BY <1>2, <2>1, <2>2
<1> QED
  BY <1>1, <1>7, <1>8, <1>9, <1>10, <1>11 DEF TypeOK

-----------------------------------------------------------------------------
(***************************************************************************)
(* The chunk that arrives next.                                            *)
(***************************************************************************)
LEMMA PlaceType ==
  ASSUME NEW p \in Place
  PROVE  /\ p[1] \in Thread /\ p[2] \in Nat /\ p[3] \in Nat /\ p = <<p[1], p[2], p[3]>>
         /\ p[2] \in DOMAIN MsgLen[p[1]] /\ p[2] > 0 /\ p[2] <= Len(MsgLen[p[1]])
         /\ MsgLen[p[1]][p[2]] \in Nat
         /\ p[3] * CHUNK_SZ < MsgLen[p[1]][p[2]]
<1>1. /\ p[1] \in Thread /\ p[2] \in Nat /\ p[3] \in Nat /\ p = <<p[1], p[2], p[3]>>
      /\ p[2] \in DOMAIN MsgLen[p[1]] /\ p[3] * CHUNK_SZ < MsgLen[p[1]][p[2]]
  BY DEF Place, Part
<1>2. MsgLen[p[1]] \in Seq(Nat)
  BY <1>1, ReceiverAssumption DEF ReceiverAssumption
<1> QED
  BY <1>1, <1>2

LEMMA IsPlace ==
  ASSUME NEW t \in Thread, NEW k \in DOMAIN MsgLen[t], NEW j \in Nat, j * CHUNK_SZ < MsgLen[t][k]
  PROVE  <<t, k, j>> \in Place /\ k \in Nat
<1>1. k \in Nat
  BY ReceiverAssumption DEF ReceiverAssumption
<1> QED
  BY <1>1 DEF Place, Part

(***************************************************************************)
(* What the receiver holds of the message that t delivers next: the        *)
(* beginning of it, and not yet all.                                       *)
(***************************************************************************)
LEMMA HaveType ==
  ASSUME TypeOK, NEW f \in [Thread \X Nat -> Sid], SidInv(f), DataInv(f),
         NEW t \in Thread, Open(f, t)
  PROVE  Partial(data_msg_map[f[<<t, delivered[t] + 1>>]], t, delivered[t] + 1)
<1> DEFINE i == f[<<t, delivered[t] + 1>>]
<1>1. delivered[t] \in Nat /\ delivered[t] < snd[t].msg /\ snd[t].msg \in Nat
  BY SenderType DEF Open
<1>2. <<t, delivered[t] + 1>> \in Live
  BY <1>1 DEF Live
<1>3. i \in Sid /\ data_msg_map[i] # NULL
  BY <1>1 DEF Open
<1>4. PICK u \in Thread : /\ delivered[u] < snd[u].msg
                          /\ i = f[<<u, delivered[u] + 1>>]
                          /\ Partial(data_msg_map[i], u, delivered[u] + 1)
  BY <1>3 DEF DataInv
<1>5. delivered[u] \in Nat /\ snd[u].msg \in Nat
  BY SenderType
<1>6. <<u, delivered[u] + 1>> \in Live
  BY <1>4, <1>5 DEF Live
<1>7. <<u, delivered[u] + 1>> = <<t, delivered[t] + 1>>
  BY <1>2, <1>4, <1>6 DEF SidInv
<1>8. u = t
  BY <1>7
<1> QED
  BY <1>4, <1>8

LEMMA HaveNat ==
  ASSUME TypeOK, NEW f \in [Thread \X Nat -> Sid], NEW t \in Thread
  PROVE  Have(f, t) \in Nat
<1>1. CASE ~Open(f, t)
  BY <1>1 DEF Have
<1>2. CASE Open(f, t)
  <2> DEFINE i == f[<<t, delivered[t] + 1>>]
  <2>1. delivered[t] \in Nat
    BY SenderType
  <2>2. i \in Sid /\ data_msg_map[i] # NULL
    BY <1>2, <2>1 DEF Open
  <2>3. data_msg_map[i] \in Data
    BY <2>2 DEF TypeOK
  <2>4. data_msg_map[i].parts \in Seq(Part)
    BY <2>3 DEF Data
  <2>5. Have(f, t) = Len(data_msg_map[i].parts)
    BY <1>2 DEF Have
  <2> QED
    BY <2>4, <2>5
<1> QED
  BY <1>1, <1>2

(***************************************************************************)
(* The place after what the receiver has of t is one of a chunk.           *)
(***************************************************************************)
LEMMA NextPlace ==
  ASSUME NoEmptyMessage, TypeOK, NEW f \in [Thread \X Nat -> Sid], SidInv(f), DataInv(f),
         NEW t \in Thread, delivered[t] < snd[t].msg
  PROVE  <<t, delivered[t] + 1, Have(f, t)>> \in Place
<1>1. delivered[t] \in Nat /\ snd[t].msg \in Nat /\ snd[t].msg <= Len(MsgLen[t])
  BY SenderType
<1>2. Len(MsgLen[t]) \in Nat
  BY ReceiverAssumption DEF ReceiverAssumption
<1>3. delivered[t] + 1 \in DOMAIN MsgLen[t]
  BY <1>1, <1>2, MessageLength
<1>4. CASE Open(f, t)
  BY <1>4, HaveType DEF Partial, Have
<1>5. CASE ~Open(f, t)
  <2>1. Have(f, t) = 0
    BY <1>5 DEF Have
  <2>2. MsgLen[t][delivered[t] + 1] > 0
    BY <1>3 DEF NoEmptyMessage
  <2>3. 0 * CHUNK_SZ < MsgLen[t][delivered[t] + 1]
    BY <2>2, TimesChunk
  <2> QED
    BY <1>3, <2>1, <2>3, IsPlace
<1> QED
  BY <1>4, <1>5

NextChunk(f, s, t, k, j) ==
  /\ t \in Thread /\ SrcOf[t] = s
  /\ k = delivered[t] + 1 /\ k <= snd[t].msg /\ j = Have(f, t)
  /\ <<t, k, j>> \in Place /\ Sent(<<t, k, j>>)
  /\ Head(net[s]) = ChunkOf(f, <<t, k, j>>)

LEMMA HeadIsNext ==
  ASSUME NoEmptyMessage, TypeOK, OrderInv, NEW f \in [Thread \X Nat -> Sid], SessionInv(f),
         NEW s \in Source, net[s] # <<>>
  PROVE  \E t \in Thread : \E k, j \in Nat : NextChunk(f, s, t, k, j)
<1> DEFINE p == Head(net[s]).part
           t == p[1]
           q == <<t, delivered[t] + 1, Have(f, t)>>
<1>1. 1 \in DOMAIN net[s] /\ Head(net[s]) = net[s][1]
  BY DEF TypeOK
<1>2. p \in Place /\ SrcOf[t] = s /\ Head(net[s]) = ChunkOf(f, p)
  BY <1>1 DEF SessionInv, ChunksInv
<1>3. t \in Thread /\ p[2] \in Nat /\ p[3] \in Nat /\ p = <<t, p[2], p[3]>>
  BY <1>2, PlaceType
<1>4. InNet(p)
  BY <1>1, <1>2 DEF InNet
<1>5. Sent(p) /\ ~Received(f, p)
  BY <1>2, <1>4 DEF SessionInv, NetInv
<1>6. delivered[t] \in Nat /\ snd[t].msg \in Nat /\ snd[t].seq \in Nat /\ Have(f, t) \in Nat
  BY <1>3, SenderType, HaveNat
<1> HIDE DEF p
<1> HIDE DEF t
<1>7. p[2] > delivered[t] /\ p[2] <= snd[t].msg
  BY <1>3, <1>5, <1>6 DEF Received, Sent, t
<1>8. q \in Place
  <2>1. t \in Thread /\ delivered[t] < snd[t].msg
    BY <1>3, <1>6, <1>7
  <2>2. SidInv(f) /\ DataInv(f)
    BY DEF SessionInv
  <2> QED
    BY <2>1, <2>2, NextPlace
<1>9. q = p \/ Before(q, p)
  <2>1. p[2] = delivered[t] + 1 => p[3] >= Have(f, t)
    BY <1>3, <1>5, <1>6 DEF Received, t
  <2>2. q[1] = t /\ q[2] = delivered[t] + 1 /\ q[3] = Have(f, t)
    OBVIOUS
  <2> HIDE DEF q
  <2>3. CASE p[2] = delivered[t] + 1 /\ p[3] = Have(f, t)
    BY <1>3, <2>3 DEF q
  <2>4. CASE ~(p[2] = delivered[t] + 1 /\ p[3] = Have(f, t))
    BY <1>3, <1>6, <1>7, <2>1, <2>2, <2>4 DEF Before
  <2> QED
    BY <2>3, <2>4
<1>10. q[1] = t /\ q[2] = delivered[t] + 1 /\ q[3] = Have(f, t)
  OBVIOUS
<1> HIDE DEF q
<1>11. Sent(q) /\ ~Received(f, q)
  <2>1. ~Received(f, q)
    BY <1>6, <1>10 DEF Received
  <2>2. Sent(q)
    BY <1>3, <1>5, <1>6, <1>9, <1>10 DEF Sent, Before, t
  <2> QED
    BY <2>1, <2>2
<1>12. InNet(q)
  BY <1>8, <1>11 DEF SessionInv, NetInv
<1>13. PICK y \in DOMAIN net[s] : net[s][y].part = q
  BY <1>2, <1>10, <1>12 DEF InNet
<1>14. y = 1 \/ 1 < y
  BY DEF TypeOK
<1>15. ~Before(p, q)
  BY <1>3, <1>6, <1>9, <1>10 DEF Before
<1>16. y = 1
  <2> SUFFICES ASSUME 1 < y PROVE FALSE
    BY <1>14
  <2>1. net[s][1].part = p
    BY <1>1 DEF p
  <2>2. net[s][1].part[1] = net[s][y].part[1]
    BY <1>10, <1>13, <2>1 DEF t
  <2>3. Before(net[s][1].part, net[s][y].part)
    BY <1>1, <1>13, <2>2 DEF OrderInv
  <2> QED
    BY <1>13, <1>15, <2>1, <2>3
<1>17. q = p
  BY <1>1, <1>13, <1>16 DEF p
<1>18. NextChunk(f, s, t, p[2], p[3])
  BY <1>2, <1>3, <1>5, <1>7, <1>10, <1>17 DEF NextChunk, t
<1> QED
  BY <1>3, <1>18

-----------------------------------------------------------------------------
(***************************************************************************)
(* What comm_node_handle_chunk does with chunk j of message k of t.        *)
(***************************************************************************)
PartsOf(t, k, j) == [x \in 1 .. j |-> <<t, k, x - 1>>]

LEMMA PartsAppend ==
  ASSUME NEW t \in Thread, NEW k \in Nat, NEW j \in Nat
  PROVE  /\ PartsOf(t, k, j) \in Seq(Part) /\ Len(PartsOf(t, k, j)) = j
         /\ Append(PartsOf(t, k, j), <<t, k, j>>) = PartsOf(t, k, j + 1)
         /\ PartsOf(t, k, j + 1)[1] = <<t, k, 0>>
<1>1. \A x \in 1 .. j : <<t, k, x - 1>> \in Part
  BY DEF Part
<1>2. PartsOf(t, k, j) \in Seq(Part) /\ Len(PartsOf(t, k, j)) = j
  BY <1>1 DEF PartsOf
<1>3. \A x \in 1 .. j + 1 : <<t, k, x - 1>> \in Part
  BY DEF Part
<1>4. PartsOf(t, k, j + 1) \in Seq(Part) /\ Len(PartsOf(t, k, j + 1)) = j + 1
  BY <1>3 DEF PartsOf
<1>5. <<t, k, j>> \in Part
  BY DEF Part
<1>6. Append(PartsOf(t, k, j), <<t, k, j>>) \in Seq(Part)
      /\ Len(Append(PartsOf(t, k, j), <<t, k, j>>)) = j + 1
  BY <1>2, <1>5
<1>7. \A x \in 1 .. j + 1 : Append(PartsOf(t, k, j), <<t, k, j>>)[x] = PartsOf(t, k, j + 1)[x]
  <2> SUFFICES ASSUME NEW x \in 1 .. j + 1
               PROVE  Append(PartsOf(t, k, j), <<t, k, j>>)[x] = PartsOf(t, k, j + 1)[x]
    OBVIOUS
  <2>1. PartsOf(t, k, j + 1)[x] = <<t, k, x - 1>>
    BY DEF PartsOf
  <2>2. CASE x = j + 1
    <3>1. Append(PartsOf(t, k, j), <<t, k, j>>)[x] = <<t, k, j>>
      BY <1>2, <1>5, <2>2
    <3>2. x - 1 = j
      BY <2>2
    <3> QED
      BY <2>1, <3>1, <3>2
  <2>3. CASE x \in 1 .. j
    <3>1. Append(PartsOf(t, k, j), <<t, k, j>>)[x] = PartsOf(t, k, j)[x]
      BY <1>2, <1>5, <2>3
    <3>2. PartsOf(t, k, j)[x] = <<t, k, x - 1>>
      BY <2>3 DEF PartsOf
    <3> QED
      BY <2>1, <3>1, <3>2
  <2>4. x = j + 1 \/ x \in 1 .. j
    OBVIOUS
  <2> QED
    BY <2>2, <2>3, <2>4
<1>8. PartsOf(t, k, j + 1)[1] = <<t, k, 0>>
  BY DEF PartsOf
<1> QED
  BY <1>2, <1>4, <1>6, <1>7, <1>8, SeqEqual

Reads(s) ==
  /\ net' = [net EXCEPT ![s] = Tail(net[s])]
  /\ curr' = [curr EXCEPT ![s] = FALSE]
  /\ UNCHANGED <<counter, snd, garbage, empty, taken, dead>>

Advances(f, t, k, j) ==
  /\ (j + 1) * CHUNK_SZ < MsgLen[t][k]
  /\ data_msg_map' = [data_msg_map EXCEPT ![f[<<t, k>>]] = DataOf(t, k, j + 1)]
  /\ UNCHANGED <<recvd_data_msg_queues, unacked, call, delivered>>

Delivers(f, s, t, k, j) ==
  /\ ~((j + 1) * CHUNK_SZ < MsgLen[t][k])
  /\ data_msg_map' = [data_msg_map EXCEPT ![f[<<t, k>>]] = NULL]
  /\ recvd_data_msg_queues' =
       [recvd_data_msg_queues EXCEPT ![s] = Append(recvd_data_msg_queues[s], DataOf(t, k, j + 1))]
  /\ unacked' = unacked + 1
  /\ call' = [r \in Caller |-> "call"]
  /\ delivered' = [delivered EXCEPT ![t] = k]

LEMMA PushesNext ==
  ASSUME NEW t \in Thread, NEW k \in Nat, NEW j \in Nat, <<t, k, j>> \in Place,
         NEW f \in [Thread \X Nat -> Sid]
  PROVE  LET old == DataOf(t, k, j)
             c == ChunkOf(f, <<t, k, j>>)
         IN  /\ old # NULL => CanPush(old, c)
             /\ Pushed(old, c) = DataOf(t, k, j + 1)
             /\ Full(DataOf(t, k, j + 1)) <=> ~((j + 1) * CHUNK_SZ < MsgLen[t][k])
<1> DEFINE old == DataOf(t, k, j)
           c == ChunkOf(f, <<t, k, j>>)
           L == MsgLen[t][k]
           p == <<t, k, j>>
<1>1. p[1] = t /\ p[2] = k /\ p[3] = j
  OBVIOUS
<1>2. L \in Nat /\ j * CHUNK_SZ < L
  BY <1>1, PlaceType
<1>3. /\ c.src_id = SrcOf[t] /\ c.seq = j /\ c.part = <<t, k, j>>
      /\ c.len = Bytes(L, j + 1) - Bytes(L, j)
  BY DEF ChunkOf
<1>4. old = [src_id |-> SrcOf[t], len |-> L, recvd |-> Bytes(L, j), seq |-> j - 1, parts |-> PartsOf(t, k, j)]
  BY DEF DataOf, PartsOf
<1>5. DataOf(t, k, j + 1) = [src_id |-> SrcOf[t], len |-> L, recvd |-> Bytes(L, j + 1), seq |-> j,
                             parts |-> PartsOf(t, k, j + 1)]
  BY DEF DataOf, PartsOf
<1>6. j + 1 \in Nat
  OBVIOUS
<1>7. Bytes(L, j) \in Nat /\ Bytes(L, j + 1) \in Nat /\ Bytes(L, j + 1) <= L
  BY <1>2, <1>6, BytesType
<1>8. Bytes(L, j + 1) = L <=> ~((j + 1) * CHUNK_SZ < L)
  BY <1>2, BytesStep
<1> HIDE DEF old, c, L
<1>9. old # NULL => CanPush(old, c)
  BY <1>3, <1>4, <1>7 DEF CanPush
<1>10. Pushed(old, c) = [src_id |-> SrcOf[t], len |-> L, recvd |-> Bytes(L, j) + (Bytes(L, j + 1) - Bytes(L, j)),
                         seq |-> j, parts |-> Append(PartsOf(t, k, j), <<t, k, j>>)]
  <2>1. Pushed(old, c) = [old EXCEPT !.seq = j, !.recvd = old.recvd + c.len,
                                     !.parts = Append(old.parts, <<t, k, j>>)]
    BY <1>3 DEF Pushed
  <2>2. old.recvd = Bytes(L, j) /\ old.parts = PartsOf(t, k, j)
    BY <1>4
  <2>3. Pushed(old, c) = [old EXCEPT !.seq = j, !.recvd = Bytes(L, j) + (Bytes(L, j + 1) - Bytes(L, j)),
                                     !.parts = Append(PartsOf(t, k, j), <<t, k, j>>)]
    BY <1>3, <2>1, <2>2
  <2> DEFINE r == Bytes(L, j) + (Bytes(L, j + 1) - Bytes(L, j))
             a == Append(PartsOf(t, k, j), <<t, k, j>>)
  <2> HIDE DEF r, a
  <2> QED
    BY <1>4, <2>3 DEF r, a
<1>11. Bytes(L, j) + (Bytes(L, j + 1) - Bytes(L, j)) = Bytes(L, j + 1)
  BY <1>7
<1>12. Append(PartsOf(t, k, j), <<t, k, j>>) = PartsOf(t, k, j + 1)
  BY PartsAppend
<1>13. Pushed(old, c) = DataOf(t, k, j + 1)
  BY <1>5, <1>10, <1>11, <1>12
<1>14. Full(DataOf(t, k, j + 1)) <=> Bytes(L, j + 1) = L
  BY <1>5 DEF Full
<1> QED
  BY <1>8, <1>9, <1>13, <1>14 DEF old, c, L

LEMMA HandleEffect ==
  ASSUME TypeOK, NEW f \in [Thread \X Nat -> Sid], SessionInv(f), CurrInv,
         NEW s \in Source, curr[s], comm_node_handle_chunk(s),
         NEW t \in Thread, NEW k \in Nat, NEW j \in Nat, NextChunk(f, s, t, k, j)
  PROVE  /\ Reads(s)
         /\ Advances(f, t, k, j) \/ Delivers(f, s, t, k, j)
         /\ Open(f, t)
<1> DEFINE c == Head(net[s])
           i == f[<<t, k>>]
           d == DataOf(t, k, j + 1)
<1>1. /\ k = delivered[t] + 1 /\ delivered[t] < snd[t].msg /\ j = Have(f, t)
      /\ <<t, k, j>> \in Place /\ c = ChunkOf(f, <<t, k, j>>)
  <2>1. delivered[t] \in Nat /\ snd[t].msg \in Nat
    BY SenderType
  <2> QED
    BY <2>1 DEF NextChunk
<1>2. c.sid = i /\ i \in Sid
  BY <1>1 DEF ChunkOf
<1>3. data_msg_map[i] # NULL
  BY <1>2 DEF CurrInv
<1>4. Open(f, t)
  BY <1>1, <1>3 DEF Open
<1>5. data_msg_map[i] = DataOf(t, k, j)
  <2>1. Partial(data_msg_map[i], t, k)
    BY <1>1, <1>4, HaveType DEF SessionInv
  <2>2. j = Len(data_msg_map[i].parts)
    BY <1>1, <1>4 DEF Have
  <2> QED
    BY <2>1, <2>2 DEF Partial
<1>6. /\ CanPush(data_msg_map[i], c)
      /\ Pushed(data_msg_map[i], c) = d
      /\ Full(d) <=> ~((j + 1) * CHUNK_SZ < MsgLen[t][k])
  <2>1. DataOf(t, k, j) # NULL
    BY <1>3, <1>5
  <2>2. <<t, k, j>> \in Place
    BY <1>1
  <2>3. /\ CanPush(DataOf(t, k, j), ChunkOf(f, <<t, k, j>>))
        /\ Pushed(DataOf(t, k, j), ChunkOf(f, <<t, k, j>>)) = DataOf(t, k, j + 1)
        /\ Full(DataOf(t, k, j + 1)) <=> ~((j + 1) * CHUNK_SZ < MsgLen[t][k])
    BY <2>1, <2>2, PushesNext
  <2> QED
    BY <1>1, <1>5, <2>3
<1>7. d.src_id = s /\ d.parts[1][1] = t
  BY DEF NextChunk, DataOf
<1> HIDE DEF c, d, i
<1>8. /\ CanPush(data_msg_map[c.sid], c)
      /\ Pushed(data_msg_map[c.sid], c) = d
  BY <1>2, <1>6
<1>9. \/ /\ ~Full(d)
         /\ data_msg_map' = [data_msg_map EXCEPT ![i] = d]
         /\ UNCHANGED <<recvd_data_msg_queues, unacked, call, delivered, dead>>
      \/ /\ Full(d)
         /\ data_msg_map' = [data_msg_map EXCEPT ![i] = NULL]
         /\ comm_node_deliver_chunk(d)
         /\ dead' = dead
  BY <1>2, <1>8 DEF comm_node_handle_chunk, cntvars, c
<1>10. Reads(s)
  BY <1>9 DEF comm_node_handle_chunk, Reads, sndvars
<1>11. ~Full(d) => Advances(f, t, k, j)
  BY <1>6, <1>9 DEF Advances, d, i
<1>12. Full(d) => Delivers(f, s, t, k, j)
  <2> SUFFICES ASSUME Full(d) PROVE Delivers(f, s, t, k, j)
    OBVIOUS
  <2>1. /\ recvd_data_msg_queues' =
            [recvd_data_msg_queues EXCEPT ![s] = Append(recvd_data_msg_queues[s], d)]
        /\ unacked' = unacked + 1
        /\ call' = [r \in Caller |-> "call"]
        /\ delivered' = [delivered EXCEPT ![t] = delivered[t] + 1]
    BY <1>7, <1>9 DEF comm_node_deliver_chunk, WakeUp, Broadcast
  <2> QED
    BY <1>1, <1>6, <1>9, <2>1 DEF Delivers, d, i
<1> QED
  BY <1>4, <1>10, <1>11, <1>12

-----------------------------------------------------------------------------
(***************************************************************************)
(* Sessions are kept apart.                                                *)
(***************************************************************************)
LEMMA OtherSession ==
  ASSUME NEW f \in [Thread \X Nat -> Sid], SidInv(f), TypeOK,
         NEW t \in Thread, NEW k \in Nat, NEW u \in Thread, NEW l \in Nat,
         delivered[t] < k, k <= snd[t].msg, delivered[u] < l, l <= snd[u].msg, f[<<t, k>>] = f[<<u, l>>]
  PROVE  t = u /\ k = l
<1>1. <<t, k>> \in Live /\ <<u, l>> \in Live
  BY DEF Live
<1>2. <<t, k>> = <<u, l>>
  BY <1>1 DEF SidInv
<1> QED
  BY <1>2

LEMMA DataOfType ==
  ASSUME NEW t \in Thread, NEW k \in DOMAIN MsgLen[t], NEW j \in Nat
  PROVE  /\ DataOf(t, k, j) \in Data /\ DataOf(t, k, j) # NULL
         /\ Len(DataOf(t, k, j).parts) = j
<1>1. k \in Nat /\ MsgLen[t][k] \in Nat /\ SrcOf[t] \in Source
  BY ReceiverAssumption DEF ReceiverAssumption
<1>2. DataOf(t, k, j) = [src_id |-> SrcOf[t], len |-> MsgLen[t][k], recvd |-> Bytes(MsgLen[t][k], j),
                         seq |-> j - 1, parts |-> PartsOf(t, k, j)]
  BY DEF DataOf, PartsOf
<1>3. PartsOf(t, k, j) \in Seq(Part) /\ Len(PartsOf(t, k, j)) = j
  BY <1>1, PartsAppend
<1>4. Bytes(MsgLen[t][k], j) \in Nat
  BY <1>1, BytesType
<1>5. j - 1 \in Int
  OBVIOUS
<1>6. DataOf(t, k, j) \in Data
  BY <1>1, <1>2, <1>3, <1>4, <1>5 DEF Data
<1> QED
  BY <1>2, <1>3, <1>6, NullAssumption

LEMMA PartialOf ==
  ASSUME NEW t \in Thread, NEW k \in Nat, NEW j \in Nat, <<t, k, j>> \in Place
  PROVE  Partial(DataOf(t, k, j), t, k) /\ DataOf(t, k, j) # NULL /\ Len(DataOf(t, k, j).parts) = j
<1>1. k \in DOMAIN MsgLen[t]
  <2>1. <<t, k, j>>[1] = t /\ <<t, k, j>>[2] = k
    OBVIOUS
  <2> QED
    BY <2>1, PlaceType
<1> QED
  BY <1>1, DataOfType DEF Partial

-----------------------------------------------------------------------------
(***************************************************************************)
(* The header of a chunk is read: its message has a session.               *)
(***************************************************************************)
LEMMA SetupEffect ==
  ASSUME NoEmptyMessage, TypeOK, OrderInv, NEW f \in [Thread \X Nat -> Sid], SessionInv(f),
         NEW s \in Source, comm_node_setup_chunk(s)
  PROVE  \E t \in Thread : \E k \in Nat :
           /\ k = delivered[t] + 1 /\ k <= snd[t].msg
           /\ Head(net[s]).sid = f[<<t, k>>]
           /\ \/ data_msg_map[f[<<t, k>>]] # NULL /\ data_msg_map' = data_msg_map
              \/ /\ data_msg_map[f[<<t, k>>]] = NULL
                 /\ <<t, k, 0>> \in Place
                 /\ data_msg_map' = [data_msg_map EXCEPT ![f[<<t, k>>]] = DataOf(t, k, 0)]
<1> DEFINE c == Head(net[s])
<1>1. /\ net[s] # <<>>
      /\ data_msg_map' = [data_msg_map EXCEPT ![c.sid] =
                            IF data_msg_map[c.sid] = NULL THEN data_msg_create(c) ELSE data_msg_map[c.sid]]
  BY DEF comm_node_setup_chunk
<1>2. PICK t \in Thread : \E k, j \in Nat : NextChunk(f, s, t, k, j)
  BY <1>1, HeadIsNext
<1>3. PICK k \in Nat, j \in Nat : NextChunk(f, s, t, k, j)
  BY <1>2
<1>4. c = ChunkOf(f, <<t, k, j>>) /\ k = delivered[t] + 1 /\ k <= snd[t].msg /\ j = Have(f, t)
      /\ <<t, k, j>> \in Place
  BY <1>3 DEF NextChunk
<1>5. /\ c.sid = f[<<t, k>>] /\ c.src_id = SrcOf[t] /\ c.tot_len = MsgLen[t][k]
      /\ f[<<t, k>>] \in Sid
  BY <1>4 DEF ChunkOf
<1>6. CASE data_msg_map[c.sid] # NULL
  <2>1. data_msg_map' = data_msg_map
    BY <1>1, <1>6 DEF TypeOK
  <2> QED
    BY <1>4, <1>5, <1>6, <2>1
<1>7. CASE data_msg_map[c.sid] = NULL
  <2>1. j = 0
    BY <1>4, <1>5, <1>7 DEF Have, Open
  <2>2. data_msg_create(c) = DataOf(t, k, 0)
    <3>1. MsgLen[t][k] \in Nat
      <4>1. <<t, k, j>>[1] = t /\ <<t, k, j>>[2] = k
        OBVIOUS
      <4> QED
        BY <1>4, <4>1, PlaceType
    <3>2. Bytes(MsgLen[t][k], 0) = 0
      BY <3>1, TimesChunk DEF Bytes
    <3>3. [x \in 1 .. 0 |-> <<t, k, x - 1>>] = <<>>
      OBVIOUS
    <3> QED
      BY <1>5, <3>2, <3>3 DEF data_msg_create, DataOf
  <2> QED
    BY <1>1, <1>4, <1>5, <1>7, <2>1, <2>2
<1> QED
  BY <1>6, <1>7

LEMMA SetupSessions ==
  ASSUME NoEmptyMessage, TypeOK, OrderInv, CurrInv, NEW f \in [Thread \X Nat -> Sid], SessionInv(f),
         NEW s \in Source, comm_node_setup_chunk(s)
  PROVE  SessionInv(f)' /\ CurrInv' /\ OrderInv'
<1>1. UNCHANGED <<counter, snd, net, delivered>> /\ curr' = [curr EXCEPT ![s] = TRUE] /\ net[s] # <<>>
  BY DEF comm_node_setup_chunk, sndvars
<1>2. PICK t \in Thread, k \in Nat :
           /\ k = delivered[t] + 1 /\ k <= snd[t].msg
           /\ Head(net[s]).sid = f[<<t, k>>]
           /\ \/ data_msg_map[f[<<t, k>>]] # NULL /\ data_msg_map' = data_msg_map
              \/ /\ data_msg_map[f[<<t, k>>]] = NULL
                 /\ <<t, k, 0>> \in Place
                 /\ data_msg_map' = [data_msg_map EXCEPT ![f[<<t, k>>]] = DataOf(t, k, 0)]
  BY SetupEffect
<1> DEFINE i == f[<<t, k>>]
<1>3. i \in Sid /\ delivered[t] \in Nat /\ snd[t].msg \in Nat /\ delivered[t] < snd[t].msg
  BY <1>2, SenderType
<1>4. SidInv(f)' /\ ChunksInv(f)' /\ OrderInv'
  BY <1>1 DEF SessionInv, SidInv, Live, ChunksInv, OrderInv
<1>5. CASE data_msg_map[i] # NULL /\ data_msg_map' = data_msg_map
  <2>1. NetInv(f)' /\ DataInv(f)'
    BY <1>1, <1>5 DEF SessionInv, NetInv, DataInv, Received, Sent, InNet, Have, Open
  <2>2. CurrInv'
    BY <1>1, <1>2, <1>5 DEF CurrInv, TypeOK
  <2> QED
    BY <1>4, <2>1, <2>2 DEF SessionInv
<1>6. CASE /\ data_msg_map[i] = NULL /\ <<t, k, 0>> \in Place
           /\ data_msg_map' = [data_msg_map EXCEPT ![i] = DataOf(t, k, 0)]
  <2>1. Partial(DataOf(t, k, 0), t, k) /\ DataOf(t, k, 0) # NULL /\ Len(DataOf(t, k, 0).parts) = 0
    BY <1>6, PartialOf
  <2>2. data_msg_map'[i] = DataOf(t, k, 0) /\ \A h \in Sid : h # i => data_msg_map'[h] = data_msg_map[h]
    BY <1>3, <1>6 DEF TypeOK
  <2>3. \A u \in Thread : Have(f, u)' = Have(f, u)
    <3> SUFFICES ASSUME NEW u \in Thread PROVE Have(f, u)' = Have(f, u)
      OBVIOUS
    <3>1. delivered[u] \in Nat /\ snd[u].msg \in Nat
      BY SenderType
    <3>2. CASE ~(delivered[u] < snd[u].msg)
      BY <1>1, <3>2 DEF Have, Open
    <3>3. CASE delivered[u] < snd[u].msg /\ u = t
      <4>1. Have(f, t) = 0
        BY <1>2, <1>6 DEF Have, Open
      <4>2. Have(f, t)' = 0
        BY <1>1, <1>2, <1>3, <2>1, <2>2 DEF Have, Open
      <4> QED
        BY <3>3, <4>1, <4>2
    <3>4. CASE delivered[u] < snd[u].msg /\ u # t
      <4>1. f[<<u, delivered[u] + 1>>] # i
        <5>1. /\ delivered[t] < k /\ delivered[u] < delivered[u] + 1
              /\ delivered[u] + 1 <= snd[u].msg /\ delivered[u] + 1 \in Nat
          BY <1>2, <1>3, <3>1, <3>4
        <5>2. SidInv(f)
          BY DEF SessionInv
        <5> DEFINE l == delivered[u] + 1
        <5> HIDE DEF l
        <5>3. delivered[u] < l /\ l <= snd[u].msg /\ l \in Nat
          BY <5>1 DEF l
        <5>4. <<t, k>> \in Live /\ <<u, l>> \in Live
          BY <1>2, <5>1, <5>3 DEF Live
        <5>5. <<t, k>> # <<u, l>>
          BY <3>4
        <5>6. f[<<u, l>>] # f[<<t, k>>]
          BY <5>2, <5>4, <5>5 DEF SidInv
        <5> QED
          BY <5>6 DEF l
      <4>2. f[<<u, delivered[u] + 1>>] \in Sid
        BY <3>1
      <4>3. data_msg_map'[f[<<u, delivered[u] + 1>>]] = data_msg_map[f[<<u, delivered[u] + 1>>]]
        BY <2>2, <4>1, <4>2
      <4> QED
        BY <1>1, <4>3 DEF Have, Open
    <3> QED
      BY <3>2, <3>3, <3>4
  <2>4. NetInv(f)'
    <3> SUFFICES ASSUME NEW p \in Place
                 PROVE  /\ Received(f, p)' => Sent(p)'
                        /\ InNet(p)' <=> (Sent(p)' /\ ~Received(f, p)')
      BY DEF NetInv
    <3>1. p[1] \in Thread
      BY PlaceType
    <3>2. (Received(f, p)' <=> Received(f, p)) /\ (Sent(p)' <=> Sent(p)) /\ (InNet(p)' <=> InNet(p))
      BY <1>1, <2>3, <3>1 DEF Received, Sent, InNet
    <3> QED
      BY <3>2 DEF SessionInv, NetInv
  <2>5. DataInv(f)'
    <3> SUFFICES ASSUME NEW h \in Sid, data_msg_map'[h] # NULL
                 PROVE  \E u \in Thread : /\ delivered[u] < snd[u].msg
                                          /\ h = f[<<u, delivered[u] + 1>>]
                                          /\ Partial(data_msg_map'[h], u, delivered[u] + 1)
      BY <1>1 DEF DataInv, Partial
    <3>1. CASE h = i
      BY <1>2, <1>3, <2>1, <2>2, <3>1
    <3>2. CASE h # i
      <4>1. data_msg_map'[h] = data_msg_map[h]
        BY <2>2, <3>2
      <4> QED
        BY <4>1 DEF SessionInv, DataInv
    <3> QED
      BY <3>1, <3>2
  <2>6. CurrInv'
    <3> SUFFICES ASSUME NEW z \in Source, curr'[z]
                 PROVE  net[z] # <<>> /\ data_msg_map'[Head(net[z]).sid] # NULL
      BY <1>1 DEF CurrInv
    <3>1. CASE z = s
      BY <1>1, <1>2, <2>1, <2>2, <3>1
    <3>2. CASE z # s
      <4>1. curr[z]
        BY <1>1, <3>2 DEF TypeOK
      <4>2. net[z] # <<>> /\ data_msg_map[Head(net[z]).sid] # NULL
        BY <4>1 DEF CurrInv
      <4>3. Head(net[z]).sid \in Sid
        BY <4>2, HeadChunk
      <4> QED
        BY <2>1, <2>2, <4>2, <4>3
    <3> QED
      BY <3>1, <3>2
  <2> QED
    BY <1>4, <2>4, <2>5, <2>6 DEF SessionInv
<1> QED
  BY <1>2, <1>5, <1>6

-----------------------------------------------------------------------------
(***************************************************************************)
(* A chunk is handled.                                                     *)
(***************************************************************************)
LEMMA AfterTail ==
  ASSUME TypeOK, NEW s \in Source, net[s] # <<>>, net' = [net EXCEPT ![s] = Tail(net[s])]
  PROVE  /\ Len(net[s]) \in Nat /\ DOMAIN net[s] = 1 .. Len(net[s])
         /\ DOMAIN net'[s] = 1 .. Len(net[s]) - 1
         /\ \A x \in DOMAIN net'[s] : net'[s][x] = net[s][x + 1] /\ x + 1 \in DOMAIN net[s]
         /\ \A z \in Source : z # s => net'[z] = net[z]
<1>1. net[s] \in Seq(ChunkType) /\ net'[s] = Tail(net[s]) /\ \A z \in Source : z # s => net'[z] = net[z]
  BY DEF TypeOK
<1> DEFINE q == net[s]
           r == net'[s]
<1> HIDE DEF q, r
<1>2. q \in Seq(ChunkType) /\ q # <<>> /\ r = Tail(q)
  BY <1>1 DEF q, r
<1>3. Len(q) \in Nat /\ DOMAIN q = 1 .. Len(q) /\ Len(q) > 0
  BY <1>2
<1>4. Len(r) = Len(q) - 1 /\ DOMAIN r = 1 .. Len(q) - 1
  BY <1>2, <1>3
<1>5. \A x \in 1 .. Len(q) - 1 : r[x] = q[x + 1] /\ x + 1 \in 1 .. Len(q)
  BY <1>2, <1>3
<1> QED
  BY <1>1, <1>3, <1>4, <1>5 DEF q, r

LEMMA HandleOrder ==
  ASSUME TypeOK, OrderInv, NEW s \in Source, net[s] # <<>>, net' = [net EXCEPT ![s] = Tail(net[s])]
  PROVE  OrderInv'
<1> SUFFICES ASSUME NEW z \in Source, NEW x \in DOMAIN net'[z], NEW y \in DOMAIN net'[z],
                    x < y, net'[z][x].part[1] = net'[z][y].part[1]
             PROVE  Before(net'[z][x].part, net'[z][y].part)
  BY DEF OrderInv, Before
<1>1. CASE z = s
  <2>3. x \in DOMAIN net'[s] /\ y \in DOMAIN net'[s] /\ DOMAIN net'[s] = 1 .. Len(net[s]) - 1
    BY <1>1, AfterTail
  <2>1. /\ net'[s][x] = net[s][x + 1] /\ x + 1 \in DOMAIN net[s]
        /\ net'[s][y] = net[s][y + 1] /\ y + 1 \in DOMAIN net[s]
        /\ x \in Int /\ y \in Int
    <3>1. \A w \in DOMAIN net'[s] : net'[s][w] = net[s][w + 1] /\ w + 1 \in DOMAIN net[s]
      BY AfterTail
    <3>2. Len(net[s]) \in Nat
      BY AfterTail
    <3>3. x \in Int /\ y \in Int
      BY <2>3, <3>2
    <3> QED
      BY <2>3, <3>1, <3>3
  <2>2. x + 1 < y + 1
    BY <2>1
  <2> QED
    BY <1>1, <2>1, <2>2 DEF OrderInv
<1>2. CASE z # s
  BY <1>2, AfterTail DEF OrderInv
<1> QED
  BY <1>1, <1>2

LEMMA HandleChunks ==
  ASSUME TypeOK, NEW f \in [Thread \X Nat -> Sid], ChunksInv(f),
         NEW s \in Source, net[s] # <<>>, net' = [net EXCEPT ![s] = Tail(net[s])]
  PROVE  ChunksInv(f)'
<1> SUFFICES ASSUME NEW z \in Source, NEW x \in DOMAIN net'[z]
             PROVE  /\ net'[z][x].part \in Place
                    /\ SrcOf[net'[z][x].part[1]] = z
                    /\ net'[z][x] = ChunkOf(f, net'[z][x].part)
  BY DEF ChunksInv
<1>1. CASE z = s
  <2>1. net'[s][x] = net[s][x + 1] /\ x + 1 \in DOMAIN net[s]
    BY <1>1, AfterTail
  <2> QED
    BY <1>1, <2>1 DEF ChunksInv
<1>2. CASE z # s
  BY <1>2, AfterTail DEF ChunksInv
<1> QED
  BY <1>1, <1>2

(***************************************************************************)
(* Exactly the first chunk leaves.                                         *)
(***************************************************************************)
LEMMA HandleNet ==
  ASSUME TypeOK, OrderInv, NEW s \in Source, net[s] # <<>>, net' = [net EXCEPT ![s] = Tail(net[s])],
         NEW p \in Place, Head(net[s]).part = p, SrcOf[p[1]] = s, NEW q \in Place
  PROVE  InNet(q)' <=> (InNet(q) /\ q # p)
<1>1. 1 \in DOMAIN net[s] /\ net[s][1].part = p
  BY HeadChunk, AfterTail DEF TypeOK
<1>2. q[1] \in Thread /\ SrcOf[q[1]] \in Source
  BY PlaceType, SourceOf
<1>3. CASE SrcOf[q[1]] # s
  <2>1. net'[SrcOf[q[1]]] = net[SrcOf[q[1]]]
    BY <1>2, <1>3, AfterTail
  <2> QED
    BY <1>3, <2>1 DEF InNet
<1>4. CASE SrcOf[q[1]] = s
  <2>1. ASSUME NEW x \in DOMAIN net'[s], net'[s][x].part = q
        PROVE  InNet(q) /\ q # p
    <3>1. net[s][x + 1].part = q /\ x + 1 \in DOMAIN net[s] /\ x \in 1 .. Len(net[s]) - 1 /\ Len(net[s]) \in Nat
      BY <2>1, AfterTail
    <3>2. InNet(q)
      BY <1>4, <3>1 DEF InNet
    <3>3. 1 < x + 1
      BY <3>1
    <3>4. q = p => Before(p, p)
      BY <1>1, <3>1, <3>3 DEF OrderInv
    <3>5. ~Before(p, p)
      BY PlaceType DEF Before
    <3> QED
      BY <3>2, <3>4, <3>5
  <2>2. ASSUME NEW x \in DOMAIN net[s], net[s][x].part = q, q # p
        PROVE  InNet(q)'
    <3>1. x # 1
      BY <1>1, <2>2
    <3>2. x - 1 \in DOMAIN net'[s] /\ net'[s][x - 1] = net[s][x]
      <4>1. x \in 1 .. Len(net[s]) /\ Len(net[s]) \in Nat /\ DOMAIN net'[s] = 1 .. Len(net[s]) - 1
        BY AfterTail
      <4>2. x - 1 \in 1 .. Len(net[s]) - 1 /\ (x - 1) + 1 = x
        BY <3>1, <4>1
      <4> QED
        BY <4>1, <4>2, AfterTail
    <3> QED
      BY <1>4, <2>2, <3>2 DEF InNet
  <2> QED
    BY <1>4, <2>1, <2>2 DEF InNet
<1> QED
  BY <1>3, <1>4

(***************************************************************************)
(* What the receiver lacks after one more place.                           *)
(***************************************************************************)
LEMMA OnePlaceMore ==
  ASSUME NEW f \in [Thread \X Nat -> Sid], NetInv(f), NEW p \in Place, Sent(p),
         \A q \in Place : /\ Sent(q)' <=> Sent(q)
                          /\ Received(f, q)' <=> (Received(f, q) \/ q = p)
                          /\ InNet(q)' <=> (InNet(q) /\ q # p)
  PROVE  NetInv(f)'
BY DEF NetInv

LEMMA OthersHave ==
  ASSUME TypeOK, NEW f \in [Thread \X Nat -> Sid], SidInv(f),
         NEW t \in Thread, delivered[t] < snd[t].msg, NEW v,
         data_msg_map' = [data_msg_map EXCEPT ![f[<<t, delivered[t] + 1>>]] = v],
         UNCHANGED snd, NEW u \in Thread, u # t, delivered'[u] = delivered[u]
  PROVE  Have(f, u)' = Have(f, u)
<1>1. /\ delivered[u] \in Nat /\ snd[u].msg \in Nat
      /\ delivered[t] \in Nat /\ snd[t].msg \in Nat
  BY SenderType
<1>2. CASE ~(delivered[u] < snd[u].msg)
  BY <1>2 DEF Have, Open
<1>3. CASE delivered[u] < snd[u].msg
  <2>1. /\ delivered[t] < delivered[t] + 1 /\ delivered[t] + 1 <= snd[t].msg /\ delivered[t] + 1 \in Nat
        /\ delivered[u] < delivered[u] + 1 /\ delivered[u] + 1 <= snd[u].msg /\ delivered[u] + 1 \in Nat
    BY <1>1, <1>3
  <2>2. f[<<t, delivered[t] + 1>>] # f[<<u, delivered[u] + 1>>]
    <3> DEFINE k == delivered[t] + 1
               l == delivered[u] + 1
    <3> HIDE DEF k, l
    <3>1. /\ k \in Nat /\ l \in Nat
          /\ delivered[t] < k /\ k <= snd[t].msg /\ delivered[u] < l /\ l <= snd[u].msg
      BY <2>1 DEF k, l
    <3>2. f[<<t, k>>] # f[<<u, l>>]
      BY <3>1, OtherSession
    <3> QED
      BY <3>2 DEF k, l
  <2>3. f[<<t, delivered[t] + 1>>] \in Sid /\ f[<<u, delivered[u] + 1>>] \in Sid
    BY <2>1
  <2>4. data_msg_map'[f[<<u, delivered[u] + 1>>]] = data_msg_map[f[<<u, delivered[u] + 1>>]]
    BY <2>2, <2>3 DEF TypeOK
  <2> QED
    BY <2>4 DEF Have, Open
<1> QED
  BY <1>2, <1>3

(***************************************************************************)
(* What a handled chunk leaves of net and curr.                            *)
(***************************************************************************)
LEMMA ReadCurr ==
  ASSUME TypeOK, CurrInv, NEW s \in Source, net[s] # <<>>, Reads(s),
         \A z \in Source : (z # s /\ curr[z]) => data_msg_map'[Head(net[z]).sid] # NULL
  PROVE  CurrInv'
<1> SUFFICES ASSUME NEW z \in Source, curr'[z]
             PROVE  net'[z] # <<>> /\ data_msg_map'[Head(net'[z]).sid] # NULL
  BY DEF CurrInv
<1>1. z # s /\ curr[z] /\ net'[z] = net[z]
  BY DEF Reads, TypeOK
<1> QED
  BY <1>1 DEF CurrInv

LEMMA SenderSidInv ==
  ASSUME TypeOK, NEW f \in [Thread \X Nat -> Sid], SidInv(f), snd' = snd,
         \A t \in Thread : delivered'[t] \in Nat /\ delivered[t] <= delivered'[t]
  PROVE  SidInv(f)'
<1>1. ASSUME NEW m \in Live' PROVE m \in Live
  <2>1. m \in Thread \X Nat /\ delivered'[m[1]] < m[2] /\ m[2] <= snd[m[1]].msg
    BY DEF Live
  <2>2. m[1] \in Thread /\ m[2] \in Nat /\ delivered[m[1]] \in Nat
    BY <2>1, SenderType
  <2>3. delivered[m[1]] < m[2]
    BY <2>1, <2>2
  <2> QED
    BY <2>1, <2>3 DEF Live
<1>2. \A m, n \in Live' : f[m] = f[n] => m = n
  BY <1>1 DEF SidInv
<1> QED
  BY <1>2 DEF SidInv

(***************************************************************************)
(* The session that another connection reads a chunk of is another one.    *)
(***************************************************************************)
LEMMA OtherHeads ==
  ASSUME NoEmptyMessage, TypeOK, OrderInv, CurrInv, NEW f \in [Thread \X Nat -> Sid], SessionInv(f),
         NEW s \in Source, NEW t \in Thread, SrcOf[t] = s, delivered[t] < snd[t].msg,
         NEW z \in Source, z # s, curr[z]
  PROVE  Head(net[z]).sid # f[<<t, delivered[t] + 1>>] /\ Head(net[z]).sid \in Sid
<1>1. net[z] # <<>>
  BY DEF CurrInv
<1>2. PICK u \in Thread : \E l, j \in Nat : NextChunk(f, z, u, l, j)
  BY <1>1, HeadIsNext
<1>3. PICK l \in Nat, j \in Nat : NextChunk(f, z, u, l, j)
  BY <1>2
<1>4. /\ SrcOf[u] = z /\ l = delivered[u] + 1 /\ l <= snd[u].msg
      /\ Head(net[z]) = ChunkOf(f, <<u, l, j>>)
  BY <1>3 DEF NextChunk
<1>5. Head(net[z]).sid = f[<<u, l>>]
  BY <1>4 DEF ChunkOf
<1>6. delivered[t] \in Nat /\ snd[t].msg \in Nat /\ delivered[u] \in Nat
  BY SenderType
<1> DEFINE k == delivered[t] + 1
<1>7. k \in Nat /\ delivered[t] < k /\ k <= snd[t].msg /\ delivered[u] < l
  BY <1>4, <1>6
<1> HIDE DEF k
<1>8. u # t
  BY <1>4
<1>9. f[<<t, k>>] # f[<<u, l>>]
  <2>1. SidInv(f) /\ delivered[u] < l /\ l <= snd[u].msg
    BY <1>4, <1>7 DEF SessionInv
  <2> QED
    BY <1>7, <1>8, <2>1, OtherSession
<1> QED
  BY <1>1, <1>5, <1>9, HeadChunk DEF k

LEMMA AdvanceSessions ==
  ASSUME NoEmptyMessage, TypeOK, OrderInv, CurrInv, NEW f \in [Thread \X Nat -> Sid], SessionInv(f),
         NEW s \in Source, net[s] # <<>>, Reads(s),
         NEW t \in Thread, NEW k \in Nat, NEW j \in Nat, NextChunk(f, s, t, k, j), Open(f, t),
         Advances(f, t, k, j)
  PROVE  SessionInv(f)' /\ CurrInv' /\ OrderInv'
<1> DEFINE p == <<t, k, j>>
           i == f[<<t, k>>]
           d == DataOf(t, k, j + 1)
<1>1. /\ net' = [net EXCEPT ![s] = Tail(net[s])] /\ curr' = [curr EXCEPT ![s] = FALSE]
      /\ counter' = counter /\ snd' = snd /\ delivered' = delivered
      /\ data_msg_map' = [data_msg_map EXCEPT ![i] = d]
      /\ (j + 1) * CHUNK_SZ < MsgLen[t][k]
  BY DEF Reads, Advances
<1>2. /\ SrcOf[t] = s /\ k = delivered[t] + 1 /\ k <= snd[t].msg /\ j = Have(f, t)
      /\ p \in Place /\ Sent(p) /\ Head(net[s]) = ChunkOf(f, p)
  BY DEF NextChunk
<1>3. i \in Sid /\ delivered[t] \in Nat /\ snd[t].msg \in Nat /\ delivered[t] < snd[t].msg
  BY <1>2, SenderType
<1>4. k \in DOMAIN MsgLen[t] /\ <<t, k, j + 1>> \in Place
  <2>1. p[1] = t /\ p[2] = k
    OBVIOUS
  <2>2. k \in DOMAIN MsgLen[t]
    BY <1>2, <2>1, PlaceType
  <2> QED
    BY <1>1, <2>2, IsPlace, SMTT(30)
<1>5. Partial(d, t, k) /\ d # NULL /\ Len(d.parts) = j + 1
  BY <1>4, PartialOf
<1> HIDE DEF d
<1>6. data_msg_map'[i] = d /\ \A h \in Sid : h # i => data_msg_map'[h] = data_msg_map[h]
  BY <1>1, <1>3 DEF TypeOK
<1>7. SidInv(f) /\ ChunksInv(f) /\ NetInv(f) /\ DataInv(f)
  BY DEF SessionInv
<1>14. \A u \in Thread : delivered'[u] \in Nat /\ delivered[u] <= delivered'[u]
  BY <1>1, SenderType
<1>8. SidInv(f)' /\ ChunksInv(f)' /\ OrderInv'
  BY <1>1, <1>7, <1>14, SenderSidInv, HandleChunks, HandleOrder
<1>9. \A u \in Thread : u # t => Have(f, u)' = Have(f, u)
  <2> SUFFICES ASSUME NEW u \in Thread, u # t PROVE Have(f, u)' = Have(f, u)
    OBVIOUS
  <2>1. data_msg_map' = [data_msg_map EXCEPT ![f[<<t, delivered[t] + 1>>]] = d]
    BY <1>1, <1>2
  <2>2. delivered'[u] = delivered[u] /\ UNCHANGED snd
    BY <1>1
  <2> QED
    BY <1>3, <1>7, <2>1, <2>2, OthersHave
<1>10. Have(f, t)' = j + 1
  BY <1>1, <1>2, <1>3, <1>5, <1>6 DEF Have, Open
<1>11. NetInv(f)'
  <2>1. ASSUME NEW q \in Place
        PROVE  /\ Sent(q)' <=> Sent(q)
               /\ Received(f, q)' <=> (Received(f, q) \/ q = p)
               /\ InNet(q)' <=> (InNet(q) /\ q # p)
    <3>1. q[1] \in Thread /\ q[2] \in Nat /\ q[3] \in Nat /\ q = <<q[1], q[2], q[3]>>
      BY PlaceType
    <3>2. Sent(q)' <=> Sent(q)
      BY <1>1 DEF Sent
    <3>3. p[1] = t /\ Head(net[s]).part = p
      BY <1>2 DEF ChunkOf
    <3>4. InNet(q)' <=> (InNet(q) /\ q # p)
      BY <1>1, <1>2, <3>3, HandleNet
    <3>5. CASE q[1] # t
      <4>1. Have(f, q[1])' = Have(f, q[1])
        BY <1>9, <3>1, <3>5
      <4>2. Received(f, q)' <=> Received(f, q)
        BY <1>1, <4>1 DEF Received
      <4>3. q # p
        BY <3>5
      <4> QED
        BY <3>2, <3>4, <4>2, <4>3
    <3>6. CASE q[1] = t
      <4>1. Received(f, q) <=> (q[2] < k \/ (q[2] = k /\ q[3] < j))
        BY <1>2, <1>3, <3>1, <3>6 DEF Received
      <4>2. Received(f, q)' <=> (q[2] < k \/ (q[2] = k /\ q[3] < j + 1))
        BY <1>1, <1>2, <1>3, <1>10, <3>1, <3>6 DEF Received
      <4>3. q = p <=> (q[2] = k /\ q[3] = j)
        BY <3>1, <3>6
      <4>4. Received(f, q)' <=> (Received(f, q) \/ q = p)
        BY <3>1, <4>1, <4>2, <4>3
      <4> QED
        BY <3>2, <3>4, <4>4
    <3> QED
      BY <3>5, <3>6
  <2> HIDE DEF p
  <2> QED
    BY <1>2, <1>7, <2>1, OnePlaceMore
<1>12. DataInv(f)'
  <2> SUFFICES ASSUME NEW h \in Sid, data_msg_map'[h] # NULL
               PROVE  \E u \in Thread : /\ delivered[u] < snd[u].msg
                                        /\ h = f[<<u, delivered[u] + 1>>]
                                        /\ Partial(data_msg_map'[h], u, delivered[u] + 1)
    BY <1>1 DEF DataInv, Partial
  <2>1. CASE h = i
    BY <1>2, <1>3, <1>5, <1>6, <2>1
  <2>2. CASE h # i
    BY <1>6, <1>7, <2>2 DEF DataInv
  <2> QED
    BY <2>1, <2>2
<1>13. CurrInv'
  <2> SUFFICES ASSUME NEW z \in Source, z # s, curr[z]
               PROVE  data_msg_map'[Head(net[z]).sid] # NULL
    BY ReadCurr
  <2>1. Head(net[z]).sid # i /\ Head(net[z]).sid \in Sid
    BY <1>2, <1>3, OtherHeads
  <2> QED
    BY <1>6, <2>1 DEF CurrInv
<1> QED
  BY <1>8, <1>11, <1>12, <1>13 DEF SessionInv

LEMMA DeliverSessions ==
  ASSUME NoEmptyMessage, TypeOK, OrderInv, CurrInv, NEW f \in [Thread \X Nat -> Sid], SessionInv(f),
         NEW s \in Source, net[s] # <<>>, Reads(s),
         NEW t \in Thread, NEW k \in Nat, NEW j \in Nat, NextChunk(f, s, t, k, j),
         Delivers(f, s, t, k, j)
  PROVE  SessionInv(f)' /\ CurrInv' /\ OrderInv'
<1> DEFINE p == <<t, k, j>>
           i == f[<<t, k>>]
<1>1. /\ net' = [net EXCEPT ![s] = Tail(net[s])] /\ curr' = [curr EXCEPT ![s] = FALSE]
      /\ counter' = counter /\ snd' = snd /\ delivered' = [delivered EXCEPT ![t] = k]
      /\ data_msg_map' = [data_msg_map EXCEPT ![i] = NULL]
      /\ ~((j + 1) * CHUNK_SZ < MsgLen[t][k])
  BY DEF Reads, Delivers
<1>2. /\ SrcOf[t] = s /\ k = delivered[t] + 1 /\ k <= snd[t].msg /\ j = Have(f, t)
      /\ p \in Place /\ Sent(p) /\ Head(net[s]) = ChunkOf(f, p)
  BY DEF NextChunk
<1>3. i \in Sid /\ delivered[t] \in Nat /\ snd[t].msg \in Nat /\ delivered[t] < snd[t].msg
  BY <1>2, SenderType
<1>4. delivered'[t] = k /\ \A u \in Thread : u # t => delivered'[u] = delivered[u]
  BY <1>1 DEF TypeOK
<1>5. data_msg_map'[i] = NULL /\ \A h \in Sid : h # i => data_msg_map'[h] = data_msg_map[h]
  BY <1>1, <1>3 DEF TypeOK
<1>6. SidInv(f) /\ ChunksInv(f) /\ NetInv(f) /\ DataInv(f)
  BY DEF SessionInv
<1>14. \A u \in Thread : delivered'[u] \in Nat /\ delivered[u] <= delivered'[u]
  <2> SUFFICES ASSUME NEW u \in Thread PROVE delivered'[u] \in Nat /\ delivered[u] <= delivered'[u]
    OBVIOUS
  <2>1. delivered[u] \in Nat
    BY SenderType
  <2>2. CASE u = t
    BY <1>2, <1>3, <1>4, <2>2
  <2>3. CASE u # t
    BY <1>4, <2>1, <2>3
  <2> QED
    BY <2>2, <2>3
<1>7. SidInv(f)' /\ ChunksInv(f)' /\ OrderInv'
  BY <1>1, <1>6, <1>14, SenderSidInv, HandleChunks, HandleOrder
<1>8. \A u \in Thread : u # t => Have(f, u)' = Have(f, u)
  <2> SUFFICES ASSUME NEW u \in Thread, u # t PROVE Have(f, u)' = Have(f, u)
    OBVIOUS
  <2>1. data_msg_map' = [data_msg_map EXCEPT ![f[<<t, delivered[t] + 1>>]] = NULL]
    BY <1>1, <1>2
  <2>2. delivered'[u] = delivered[u] /\ UNCHANGED snd
    BY <1>1, <1>4
  <2> QED
    BY <1>3, <1>6, <2>1, <2>2, OthersHave
<1>9. Have(f, t)' = 0
  <2> SUFFICES ASSUME Open(f, t)' PROVE FALSE
    BY DEF Have
  <2> DEFINE l == k + 1
             h == f[<<t, l>>]
  <2>1. k < snd[t].msg /\ data_msg_map'[h] # NULL
    BY <1>1, <1>4 DEF Open
  <2>2. l \in Nat /\ l <= snd[t].msg /\ delivered[t] < l /\ l # k
    BY <1>2, <1>3, <2>1
  <2>3. h \in Sid
    BY <2>2
  <2> HIDE DEF l
  <2>4. data_msg_map[h] # NULL
    BY <1>5, <2>1, <2>3
  <2>5. PICK u \in Thread : delivered[u] < snd[u].msg /\ h = f[<<u, delivered[u] + 1>>]
    BY <1>6, <2>3, <2>4 DEF DataInv
  <2> DEFINE m == delivered[u] + 1
  <2>6. m \in Nat /\ delivered[u] < m /\ m <= snd[u].msg
    BY <2>5, SenderType
  <2> HIDE DEF m
  <2>7. f[<<t, l>>] = f[<<u, m>>]
    BY <2>5 DEF m
  <2>8. t = u /\ l = m
    <3>1. <<t, l>> \in Live /\ <<u, m>> \in Live
      BY <2>2, <2>6 DEF Live
    <3>2. <<t, l>> = <<u, m>>
      BY <1>6, <2>7, <3>1 DEF SidInv
    <3> QED
      BY <3>2
  <2> QED
    BY <1>2, <2>2, <2>8 DEF m
<1>10. NetInv(f)'
  <2>1. ASSUME NEW q \in Place
        PROVE  /\ Sent(q)' <=> Sent(q)
               /\ Received(f, q)' <=> (Received(f, q) \/ q = p)
               /\ InNet(q)' <=> (InNet(q) /\ q # p)
    <3>1. q[1] \in Thread /\ q[2] \in Nat /\ q[3] \in Nat /\ q = <<q[1], q[2], q[3]>>
          /\ q[3] * CHUNK_SZ < MsgLen[q[1]][q[2]] /\ MsgLen[q[1]][q[2]] \in Nat
      BY PlaceType
    <3>2. Sent(q)' <=> Sent(q)
      BY <1>1 DEF Sent
    <3>3. p[1] = t /\ Head(net[s]).part = p
      BY <1>2 DEF ChunkOf
    <3>4. InNet(q)' <=> (InNet(q) /\ q # p)
      BY <1>1, <1>2, <3>3, HandleNet
    <3>5. CASE q[1] # t
      <4>1. Have(f, q[1])' = Have(f, q[1]) /\ delivered'[q[1]] = delivered[q[1]]
        BY <1>4, <1>8, <3>1, <3>5
      <4>2. Received(f, q)' <=> Received(f, q)
        BY <4>1 DEF Received
      <4>3. q # p
        BY <3>5
      <4> QED
        BY <3>2, <3>4, <4>2, <4>3
    <3>6. CASE q[1] = t
      <4>1. Received(f, q) <=> (q[2] < k \/ (q[2] = k /\ q[3] < j))
        BY <1>2, <1>3, <3>1, <3>6 DEF Received
      <4>2. Received(f, q)' <=> q[2] <= k
        BY <1>4, <1>9, <3>1, <3>6 DEF Received
      <4>3. q = p <=> (q[2] = k /\ q[3] = j)
        BY <3>1, <3>6
      <4>4. q[2] = k => q[3] <= j
        <5> SUFFICES ASSUME q[2] = k, j + 1 <= q[3] PROVE FALSE
          BY <3>1
        <5> DEFINE a == j + 1
                   b == q[3]
        <5>4. a \in Nat /\ b \in Nat /\ a <= b
          BY <3>1
        <5> HIDE DEF a, b
        <5>5. a * CHUNK_SZ <= b * CHUNK_SZ
          BY <5>4, ChunkSize, TimesMonotone
        <5>1. (j + 1) * CHUNK_SZ <= q[3] * CHUNK_SZ
          BY <5>5 DEF a, b
        <5>2. (j + 1) * CHUNK_SZ \in Nat /\ q[3] * CHUNK_SZ \in Nat
          BY <3>1, TimesChunk, ChunkSize, SMTT(30)
        <5>3. q[3] * CHUNK_SZ < MsgLen[t][k] /\ MsgLen[t][k] \in Nat
          BY <3>1, <3>6
        <5> QED
          BY <1>1, <5>1, <5>2, <5>3
      <4>5. Received(f, q)' <=> (Received(f, q) \/ q = p)
        BY <3>1, <4>1, <4>2, <4>3, <4>4
      <4> QED
        BY <3>2, <3>4, <4>5
    <3> QED
      BY <3>5, <3>6
  <2> HIDE DEF p
  <2> QED
    BY <1>2, <1>6, <2>1, OnePlaceMore
<1>11. DataInv(f)'
  <2> SUFFICES ASSUME NEW h \in Sid, data_msg_map'[h] # NULL
               PROVE  \E u \in Thread : /\ delivered'[u] < snd[u].msg
                                        /\ h = f[<<u, delivered'[u] + 1>>]
                                        /\ Partial(data_msg_map'[h], u, delivered'[u] + 1)
    BY <1>1 DEF DataInv, Partial
  <2>1. h # i /\ data_msg_map'[h] = data_msg_map[h]
    BY <1>5
  <2>2. PICK u \in Thread : /\ delivered[u] < snd[u].msg
                            /\ h = f[<<u, delivered[u] + 1>>]
                            /\ Partial(data_msg_map[h], u, delivered[u] + 1)
    BY <1>6, <2>1 DEF DataInv
  <2>3. u # t
    BY <1>2, <2>1, <2>2
  <2> QED
    BY <1>4, <2>1, <2>2, <2>3
<1>12. CurrInv'
  <2> SUFFICES ASSUME NEW z \in Source, z # s, curr[z]
               PROVE  data_msg_map'[Head(net[z]).sid] # NULL
    BY ReadCurr
  <2>1. Head(net[z]).sid # i /\ Head(net[z]).sid \in Sid
    BY <1>2, <1>3, OtherHeads
  <2> QED
    BY <1>5, <2>1 DEF CurrInv
<1> QED
  BY <1>7, <1>10, <1>11, <1>12 DEF SessionInv

-----------------------------------------------------------------------------
(***************************************************************************)
(* A chunk is sent.                                                        *)
(***************************************************************************)
LEMMA AfterAppend ==
  ASSUME TypeOK, NEW s \in Source, NEW c \in ChunkType, net' = [net EXCEPT ![s] = Append(net[s], c)]
  PROVE  /\ Len(net[s]) \in Nat /\ DOMAIN net[s] = 1 .. Len(net[s])
         /\ DOMAIN net'[s] = 1 .. Len(net[s]) + 1
         /\ \A x \in DOMAIN net[s] : net'[s][x] = net[s][x]
         /\ net'[s][Len(net[s]) + 1] = c
         /\ \A z \in Source : z # s => net'[z] = net[z]
         /\ net[s] # <<>> => Head(net'[s]) = Head(net[s])
         /\ net'[s] # <<>>
<1>1. net[s] \in Seq(ChunkType) /\ net'[s] = Append(net[s], c) /\ \A z \in Source : z # s => net'[z] = net[z]
  BY DEF TypeOK
<1> DEFINE q == net[s]
           r == net'[s]
<1> HIDE DEF q, r
<1>2. q \in Seq(ChunkType) /\ r = Append(q, c)
  BY <1>1 DEF q, r
<1>3. Len(q) \in Nat /\ DOMAIN q = 1 .. Len(q)
  BY <1>2
<1>4. Len(r) = Len(q) + 1 /\ DOMAIN r = 1 .. Len(q) + 1 /\ r \in Seq(ChunkType)
  BY <1>2, <1>3
<1>5. \A x \in 1 .. Len(q) : r[x] = q[x]
  BY <1>2, <1>3
<1>6. r[Len(q) + 1] = c
  BY <1>2, <1>3
<1>7. r # <<>>
  BY <1>3, <1>4
<1>8. q # <<>> => Head(r) = Head(q)
  BY <1>2, <1>3, <1>4, <1>5, <1>7
<1> QED
  BY <1>1, <1>3, <1>4, <1>5, <1>6, <1>7, <1>8 DEF q, r

(***************************************************************************)
(* What ioman_send_chunk appends is the chunk of the next place of t.      *)
(***************************************************************************)
LEMMA SendEffect ==
  ASSUME TypeOK, SendInv, NEW f \in [Thread \X Nat -> Sid], SidInv(f),
         NEW t \in Thread, ioman_send_chunk(t)
  PROVE  /\ <<t, snd[t].msg, snd[t].seq>> \in Place
         /\ Chunk(t) = ChunkOf(f, <<t, snd[t].msg, snd[t].seq>>)
         /\ Chunk(t) \in ChunkType
         /\ snd' = [snd EXCEPT ![t] = [snd[t] EXCEPT !.off = snd[t].off + ChunkLen(t), !.seq = snd[t].seq + 1]]
         /\ net' = [net EXCEPT ![SrcOf[t]] = Append(net[SrcOf[t]], Chunk(t))]
         /\ snd[t].off + ChunkLen(t) = Bytes(MsgLen[t][snd[t].msg], snd[t].seq + 1)
<1> DEFINE k == snd[t].msg
           j == snd[t].seq
           L == MsgLen[t][k]
<1>1. /\ Sending(t)
      /\ net' = [net EXCEPT ![SrcOf[t]] = Append(net[SrcOf[t]], Chunk(t))]
      /\ snd' = [snd EXCEPT ![t] = [snd[t] EXCEPT !.off = snd[t].off + ChunkLen(t),
                                                  !.seq = snd[t].seq + 1]]
  BY DEF ioman_send_chunk, TypeOK
<1>2. k \in Nat /\ k > 0 /\ j \in Nat /\ snd[t].off \in Nat /\ snd[t].off < L /\ snd[t].sid \in Nat
  BY <1>1, SenderType DEF Sending
<1>3. k \in DOMAIN MsgLen[t] /\ L \in Nat /\ Chunk(t) \in ChunkType
  BY <1>1, <1>2, SenderType, MessageLength, ChunkTyped
<1>4. snd[t].off = Bytes(L, j)
  BY <1>2 DEF SendInv
<1>5. j * CHUNK_SZ < L /\ j * CHUNK_SZ \in Nat
  BY <1>2, <1>3, <1>4, TimesChunk DEF Bytes
<1>6. <<t, k, j>> \in Place
  BY <1>2, <1>3, <1>5, IsPlace
<1>7. ChunkLen(t) = IF CHUNK_SZ > L - Bytes(L, j) THEN L - Bytes(L, j) ELSE CHUNK_SZ
  BY <1>4 DEF ChunkLen
<1>8. Bytes(L, j + 1) = Bytes(L, j) + ChunkLen(t)
  BY <1>2, <1>3, <1>5, <1>7, BytesStep
<1>9. ChunkLen(t) = Bytes(L, j + 1) - Bytes(L, j)
  <2>1. ChunkLen(t) \in Nat /\ Bytes(L, j) \in Nat
    BY <1>1, <1>2, <1>3, ChunkTyped, BytesType
  <2> QED
    BY <1>8, <2>1
<1>10. WireSid(SrcOf[t], snd[t].sid) = f[<<t, k>>]
  BY <1>2 DEF SidInv
<1>11. Chunk(t) = ChunkOf(f, <<t, k, j>>)
  BY <1>9, <1>10 DEF Chunk, ChunkOf
<1> QED
  BY <1>1, <1>3, <1>4, <1>6, <1>8, <1>11

LEMMA SendChunkSessions ==
  ASSUME NoEmptyMessage, TypeOK, SendInv, OrderInv, CurrInv, NEW f \in [Thread \X Nat -> Sid], SessionInv(f),
         NEW t \in Thread, ioman_send_chunk(t)
  PROVE  SessionInv(f)' /\ CurrInv' /\ OrderInv' /\ SendInv'
<1> DEFINE k == snd[t].msg
           j == snd[t].seq
           p == <<t, k, j>>
           s == SrcOf[t]
           c == Chunk(t)
<1>1. SidInv(f) /\ ChunksInv(f) /\ NetInv(f) /\ DataInv(f)
  BY DEF SessionInv
<1>2. /\ p \in Place /\ c = ChunkOf(f, p) /\ c \in ChunkType
      /\ snd' = [snd EXCEPT ![t] = [snd[t] EXCEPT !.off = snd[t].off + ChunkLen(t), !.seq = snd[t].seq + 1]]
      /\ net' = [net EXCEPT ![s] = Append(net[s], c)]
      /\ snd[t].off + ChunkLen(t) = Bytes(MsgLen[t][k], j + 1)
  BY <1>1, SendEffect
<1>3. UNCHANGED <<counter, curr, data_msg_map, delivered>>
  BY DEF ioman_send_chunk
<1>4. s \in Source /\ k \in Nat /\ j \in Nat /\ k > 0
  <2>1. p[2] = k
    OBVIOUS
  <2> QED
    BY <1>2, <2>1, SourceOf, SenderType, PlaceType
<1>5. /\ snd'[t].msg = k /\ snd'[t].sid = snd[t].sid /\ snd'[t].seq = j + 1
      /\ snd'[t].off = Bytes(MsgLen[t][k], j + 1)
      /\ \A u \in Thread : u # t => snd'[u] = snd[u]
  BY <1>2 DEF TypeOK
<1>6. \A u \in Thread : snd'[u].msg = snd[u].msg /\ snd'[u].sid = snd[u].sid
  BY <1>5
<1>7. p[1] = t /\ p[2] = k /\ p[3] = j
  OBVIOUS
<1> HIDE DEF k, j, p, s, c
<1>8. SidInv(f)'
  BY <1>1, <1>3, <1>6 DEF SidInv, Live
<1>9. SendInv'
  <2>1. \A u \in Thread : delivered'[u] <= snd'[u].msg
    BY <1>3, <1>6 DEF SendInv
  <2>2. \A u \in Thread : snd'[u].msg > 0 => snd'[u].off = Bytes(MsgLen[u][snd'[u].msg], snd'[u].seq)
    BY <1>5 DEF SendInv
  <2> QED
    BY <2>1, <2>2 DEF SendInv
<1>10. /\ Len(net[s]) \in Nat /\ DOMAIN net[s] = 1 .. Len(net[s])
       /\ DOMAIN net'[s] = 1 .. Len(net[s]) + 1
       /\ \A x \in DOMAIN net[s] : net'[s][x] = net[s][x]
       /\ net'[s][Len(net[s]) + 1] = c
       /\ \A z \in Source : z # s => net'[z] = net[z]
       /\ net[s] # <<>> => Head(net'[s]) = Head(net[s])
       /\ net'[s] # <<>>
  BY <1>2, <1>4, AfterAppend
<1>11. c.part = p /\ SrcOf[p[1]] = s
  BY <1>2, <1>7 DEF ChunkOf, s
<1>12. ChunksInv(f)'
  <2> SUFFICES ASSUME NEW z \in Source, NEW x \in DOMAIN net'[z]
               PROVE  /\ net'[z][x].part \in Place
                      /\ SrcOf[net'[z][x].part[1]] = z
                      /\ net'[z][x] = ChunkOf(f, net'[z][x].part)
    BY DEF ChunksInv
  <2>1. CASE z # s
    BY <1>1, <1>10, <2>1 DEF ChunksInv
  <2>2. CASE z = s /\ x \in DOMAIN net[s]
    BY <1>1, <1>10, <2>2 DEF ChunksInv
  <2>3. CASE z = s /\ x = Len(net[s]) + 1
    BY <1>2, <1>10, <1>11, <2>3
  <2> QED
    BY <1>10, <2>1, <2>2, <2>3
<1>13. \A x \in DOMAIN net[s] : net[s][x].part[1] = t => Before(net[s][x].part, p)
  <2> SUFFICES ASSUME NEW x \in DOMAIN net[s], net[s][x].part[1] = t
               PROVE  Before(net[s][x].part, p)
    OBVIOUS
  <2> DEFINE q == net[s][x].part
  <2>1. q \in Place /\ SrcOf[q[1]] = s
    BY <1>1, <1>4 DEF ChunksInv
  <2>2. InNet(q)
    BY <2>1 DEF InNet
  <2>3. Sent(q)
    BY <1>1, <2>1, <2>2 DEF NetInv
  <2> QED
    BY <1>7, <2>3 DEF Before, Sent, k, j
<1>14. OrderInv'
  <2> SUFFICES ASSUME NEW z \in Source, NEW x \in DOMAIN net'[z], NEW y \in DOMAIN net'[z],
                      x < y, net'[z][x].part[1] = net'[z][y].part[1]
               PROVE  Before(net'[z][x].part, net'[z][y].part)
    BY DEF OrderInv, Before
  <2>1. CASE z # s
    BY <1>10, <2>1 DEF OrderInv
  <2>2. CASE z = s /\ y \in DOMAIN net[s]
    <3>1. x \in DOMAIN net[s]
      BY <1>10, <2>2
    <3> QED
      BY <1>4, <1>10, <2>2, <3>1 DEF OrderInv
  <2>3. CASE z = s /\ y = Len(net[s]) + 1
    <3>1. x \in DOMAIN net[s]
      BY <1>10, <2>3
    <3> QED
      BY <1>7, <1>10, <1>11, <1>13, <2>3, <3>1
  <2> QED
    BY <1>10, <2>1, <2>2, <2>3
<1>15. \A u \in Thread : Have(f, u)' = Have(f, u)
  BY <1>3, <1>6 DEF Have, Open
<1>16. ~Received(f, p)
  <2> SUFFICES ASSUME Received(f, p) PROVE FALSE
    OBVIOUS
  <2>1. Sent(p)
    BY <1>1, <1>2 DEF NetInv
  <2> QED
    BY <1>4, <1>7, <2>1 DEF Sent, k, j
<1>17. NetInv(f)'
  <2> SUFFICES ASSUME NEW q \in Place
               PROVE  /\ Received(f, q)' => Sent(q)'
                      /\ InNet(q)' <=> (Sent(q)' /\ ~Received(f, q)')
    BY DEF NetInv
  <2>1. q[1] \in Thread /\ q[2] \in Nat /\ q[3] \in Nat /\ q = <<q[1], q[2], q[3]>>
    BY PlaceType
  <2>2. Received(f, q)' <=> Received(f, q)
    BY <1>3, <1>15, <2>1 DEF Received
  <2>3. Sent(q)' <=> (Sent(q) \/ q = p)
    <3>1. CASE q[1] # t
      BY <1>5, <1>7, <2>1, <3>1 DEF Sent
    <3>2. CASE q[1] = t
      <4>1. q = p <=> (q[2] = k /\ q[3] = j)
        BY <2>1, <3>2 DEF p
      <4>2. Sent(q) <=> (q[2] < k \/ (q[2] = k /\ q[3] < j))
        BY <3>2 DEF Sent, k, j
      <4>3. Sent(q)' <=> (q[2] < k \/ (q[2] = k /\ q[3] < j + 1))
        BY <1>5, <3>2 DEF Sent
      <4> QED
        BY <1>4, <2>1, <4>1, <4>2, <4>3
    <3> QED
      BY <3>1, <3>2
  <2>4. InNet(q)' <=> (InNet(q) \/ q = p)
    <3>1. CASE SrcOf[q[1]] # s
      <4>1. net'[SrcOf[q[1]]] = net[SrcOf[q[1]]]
        BY <1>10, <2>1, <3>1, SourceOf
      <4> QED
        BY <1>11, <3>1, <4>1 DEF InNet
    <3>2. CASE SrcOf[q[1]] = s
      <4>1. InNet(q)' <=> \E x \in DOMAIN net'[s] : net'[s][x].part = q
        BY <3>2 DEF InNet
      <4>2. InNet(q) <=> \E x \in DOMAIN net[s] : net[s][x].part = q
        BY <3>2 DEF InNet
      <4>3. ASSUME NEW x \in DOMAIN net'[s] PROVE x \in DOMAIN net[s] \/ x = Len(net[s]) + 1
        BY <1>10
      <4>4. \A x \in DOMAIN net[s] : x \in DOMAIN net'[s]
        BY <1>10
      <4>5. Len(net[s]) + 1 \in DOMAIN net'[s]
        BY <1>10
      <4> QED
        BY <1>10, <1>11, <4>1, <4>2, <4>3, <4>4, <4>5
    <3> QED
      BY <3>1, <3>2
  <2> QED
    BY <1>1, <1>16, <2>2, <2>3, <2>4 DEF NetInv
<1>18. DataInv(f)'
  BY <1>1, <1>3, <1>6 DEF DataInv, Partial
<1>19. CurrInv'
  <2> SUFFICES ASSUME NEW z \in Source, curr[z]
               PROVE  net'[z] # <<>> /\ data_msg_map[Head(net'[z]).sid] # NULL
    BY <1>3 DEF CurrInv
  <2>1. net[z] # <<>> /\ data_msg_map[Head(net[z]).sid] # NULL
    BY DEF CurrInv
  <2> QED
    BY <1>10, <2>1
<1> QED
  BY <1>8, <1>9, <1>12, <1>14, <1>17, <1>18, <1>19 DEF SessionInv

-----------------------------------------------------------------------------
(***************************************************************************)
(* A message is begun: it gets a session of its own.                       *)
(***************************************************************************)
LEMMA BeginEffect ==
  ASSUME TypeOK, SendInv, SessionsFree, NEW t \in Thread, comm_node_get_new_sid(t)
  PROVE  /\ snd' = [snd EXCEPT ![t] = [msg |-> snd[t].msg + 1, sid |-> counter[SrcOf[t]], off |-> 0, seq |-> 0]]
         /\ counter' = [counter EXCEPT ![SrcOf[t]] = counter[SrcOf[t]] + 1]
         /\ UNCHANGED <<net, curr, data_msg_map, delivered>>
         /\ snd[t].msg > 0 => ~(snd[t].seq * CHUNK_SZ < MsgLen[t][snd[t].msg])
         /\ SendInv'
         /\ snd[t].msg + 1 \in DOMAIN MsgLen[t]
         /\ ~InUse(WireSid(SrcOf[t], counter[SrcOf[t]]))
<1> DEFINE k == snd[t].msg
           s == SrcOf[t]
<1>1. /\ ~Sending(t) /\ k < Len(MsgLen[t])
      /\ snd' = [snd EXCEPT ![t] = [msg |-> k + 1, sid |-> counter[s], off |-> 0, seq |-> 0]]
      /\ counter' = [counter EXCEPT ![s] = counter[s] + 1]
      /\ UNCHANGED <<net, curr, data_msg_map, delivered>>
  BY DEF comm_node_get_new_sid
<1>2. /\ k \in Nat /\ snd[t].seq \in Nat /\ snd[t].off \in Nat /\ k <= Len(MsgLen[t])
      /\ k > 0 => snd[t].off <= MsgLen[t][k]
      /\ delivered[t] \in Nat
  BY SenderType
<1>3. Len(MsgLen[t]) \in Nat
  BY ReceiverAssumption DEF ReceiverAssumption
<1>4. k + 1 \in DOMAIN MsgLen[t] /\ MsgLen[t][k + 1] \in Nat
  BY <1>1, <1>2, <1>3, MessageLength
<1>5. k > 0 => ~(snd[t].seq * CHUNK_SZ < MsgLen[t][k])
  <2> SUFFICES ASSUME k > 0, snd[t].seq * CHUNK_SZ < MsgLen[t][k] PROVE FALSE
    OBVIOUS
  <2>1. MsgLen[t][k] \in Nat /\ snd[t].seq * CHUNK_SZ \in Nat
    BY <1>2, MessageLength, TimesChunk
  <2>2. snd[t].off = snd[t].seq * CHUNK_SZ
    BY DEF SendInv, Bytes
  <2>3. ~(snd[t].off < MsgLen[t][k])
    BY <1>1 DEF Sending
  <2> QED
    BY <2>1, <2>2, <2>3
<1>6. /\ snd'[t].msg = k + 1 /\ snd'[t].off = 0 /\ snd'[t].seq = 0
      /\ \A u \in Thread : u # t => snd'[u] = snd[u]
  BY <1>1 DEF TypeOK
<1>7. SendInv'
  <2>1. \A u \in Thread : delivered'[u] <= snd'[u].msg
    BY <1>1, <1>2, <1>6 DEF SendInv
  <2>2. \A u \in Thread : snd'[u].msg > 0 => snd'[u].off = Bytes(MsgLen[u][snd'[u].msg], snd'[u].seq)
    <3>1. Bytes(MsgLen[t][k + 1], 0) = 0
      BY <1>4, TimesChunk DEF Bytes
    <3> QED
      BY <1>6, <3>1 DEF SendInv
  <2> QED
    BY <2>1, <2>2 DEF SendInv
<1>8. ~InUse(WireSid(s, counter[s]))
  BY <1>1 DEF SessionsFree
<1> QED
  BY <1>1, <1>4, <1>5, <1>7, <1>8

(***************************************************************************)
(* A session that is not in use is that of no message under way: a thread  *)
(* is about to send the first chunk, or it is on its way, or the receiver  *)
(* has it and keeps the session.                                           *)
(***************************************************************************)
LEMMA FreeSession ==
  ASSUME NoEmptyMessage, TypeOK, SendInv, NEW f \in [Thread \X Nat -> Sid], SessionInv(f),
         NEW i, ~InUse(i)
  PROVE  \A m \in Live : f[m] # i
<1> SUFFICES ASSUME NEW m \in Live, f[m] = i PROVE FALSE
  OBVIOUS
<1>1. PICK u \in Thread, l \in Nat : m = <<u, l>>
  BY DEF Live
<1>2. /\ delivered[u] \in Nat /\ snd[u].msg \in Nat /\ snd[u].seq \in Nat
      /\ delivered[u] < l /\ l <= snd[u].msg /\ snd[u].msg <= Len(MsgLen[u])
  BY <1>1, SenderType DEF Live
<1>3. Len(MsgLen[u]) \in Nat
  BY ReceiverAssumption DEF ReceiverAssumption
<1>4. l \in DOMAIN MsgLen[u] /\ MsgLen[u][l] \in Nat /\ MsgLen[u][l] > 0
  BY <1>2, <1>3, MessageLength DEF NoEmptyMessage
<1>5. <<u, l, 0>> \in Place
  BY <1>4, TimesChunk, IsPlace
<1>6. Sent(<<u, l, 0>>)
  <2>1. CASE l < snd[u].msg
    BY <2>1 DEF Sent
  <2>2. CASE l = snd[u].msg
    <3>1. f[<<u, l>>] = WireSid(SrcOf[u], snd[u].sid)
      BY <1>2, <2>2 DEF SessionInv, SidInv
    <3>2. ~Sending(u)
      BY <1>1, <3>1 DEF InUse
    <3>3. ~(snd[u].off < MsgLen[u][l])
      BY <1>2, <2>2, <3>2 DEF Sending
    <3>4. snd[u].off = Bytes(MsgLen[u][l], snd[u].seq)
      BY <1>2, <2>2 DEF SendInv
    <3>5. snd[u].seq # 0
      BY <1>4, <3>3, <3>4, TimesChunk DEF Bytes
    <3> QED
      BY <1>2, <2>2, <3>5 DEF Sent
  <2> QED
    BY <1>2, <2>1, <2>2
<1>7. CASE InNet(<<u, l, 0>>)
  <2>1. PICK x \in DOMAIN net[SrcOf[u]] : net[SrcOf[u]][x].part = <<u, l, 0>>
    BY <1>7 DEF InNet
  <2>2. SrcOf[u] \in Source
    BY SourceOf
  <2>3. net[SrcOf[u]][x] = ChunkOf(f, <<u, l, 0>>)
    BY <2>1, <2>2 DEF SessionInv, ChunksInv
  <2>4. net[SrcOf[u]][x].sid = i
    BY <1>1, <2>3 DEF ChunkOf
  <2> QED
    BY <2>1, <2>2, <2>4 DEF InUse
<1>8. CASE Received(f, <<u, l, 0>>)
  <2>1. l = delivered[u] + 1 /\ Have(f, u) # 0
    <3>1. l <= delivered[u] \/ (l = delivered[u] + 1 /\ 0 < Have(f, u))
      BY <1>8 DEF Received
    <3> QED
      BY <1>2, <3>1
  <2>2. data_msg_map[i] # NULL
    BY <1>1, <2>1 DEF Have, Open
  <2> QED
    BY <2>2 DEF InUse
<1> QED
  BY <1>5, <1>6, <1>7, <1>8 DEF SessionInv, NetInv

(***************************************************************************)
(* The sessions after t has begun its next message.                        *)
(***************************************************************************)
Extended(f, t) == [f EXCEPT ![<<t, snd[t].msg + 1>>] = WireSid(SrcOf[t], counter[SrcOf[t]])]

LEMMA BeginSessions ==
  ASSUME NoEmptyMessage, SessionsFree,
         TypeOK, SendInv, OrderInv, CurrInv, NEW f \in [Thread \X Nat -> Sid], SessionInv(f),
         NEW t \in Thread, comm_node_get_new_sid(t),
         NEW g \in [Thread \X Nat -> Sid], g = Extended(f, t)
  PROVE  SessionInv(g)' /\ CurrInv' /\ OrderInv'
<1> DEFINE k == snd[t].msg
           s == SrcOf[t]
           m == <<t, k + 1>>
           n == WireSid(s, counter[s])
<1>1. SidInv(f) /\ ChunksInv(f) /\ NetInv(f) /\ DataInv(f)
  BY DEF SessionInv
<1>2. /\ snd' = [snd EXCEPT ![t] = [msg |-> k + 1, sid |-> counter[s], off |-> 0, seq |-> 0]]
      /\ counter' = [counter EXCEPT ![s] = counter[s] + 1]
      /\ UNCHANGED <<net, curr, data_msg_map, delivered>>
      /\ k > 0 => ~(snd[t].seq * CHUNK_SZ < MsgLen[t][k])
      /\ ~InUse(n)
  BY BeginEffect
<1>3. k \in Nat /\ snd[t].seq \in Nat /\ delivered[t] \in Nat /\ s \in Source /\ counter[s] \in Nat
  BY SenderType, SourceOf DEF TypeOK
<1>4. /\ snd'[t].msg = k + 1 /\ snd'[t].sid = counter[s] /\ snd'[t].seq = 0
      /\ \A u \in Thread : u # t => snd'[u] = snd[u]
  BY <1>2, <1>3 DEF TypeOK
<1>5. m \in Thread \X Nat /\ n \in Sid /\ m[1] = t /\ m[2] = k + 1
  BY <1>3, WireSidType
<1>6. /\ g \in [Thread \X Nat -> Sid] /\ g[m] = n
      /\ \A x \in Thread \X Nat : x # m => g[x] = f[x]
  BY <1>5 DEF Extended
<1>7. delivered[t] <= k
  BY DEF SendInv
<1> HIDE DEF m, n
<1>8. /\ Live \subseteq Thread \X Nat
      /\ m \notin Live
      /\ Live' = Live \cup {m}
  <2>1. m \notin Live
    <3>1. ~(k + 1 <= k)
      BY <1>3
    <3> QED
      BY <1>5, <3>1 DEF Live
  <2>2. ASSUME NEW x \in Thread \X Nat
        PROVE  (delivered[x[1]] < x[2] /\ x[2] <= snd'[x[1]].msg)
               <=> ((delivered[x[1]] < x[2] /\ x[2] <= snd[x[1]].msg) \/ x = m)
    <3>1. x[1] \in Thread /\ x[2] \in Nat /\ x = <<x[1], x[2]>>
      OBVIOUS
    <3>2. CASE x[1] # t
      BY <1>4, <1>5, <3>1, <3>2
    <3>3. CASE x[1] = t
      <4>1. x = m <=> x[2] = k + 1
        BY <3>1, <3>3 DEF m
      <4>2. snd'[x[1]].msg = k + 1 /\ snd[x[1]].msg = k /\ delivered[x[1]] = delivered[t]
        BY <1>4, <3>3
      <4>3. k \in Nat /\ x[2] \in Nat /\ delivered[t] \in Nat /\ delivered[t] <= k
        BY <1>3, <1>7, <3>1
      <4> HIDE DEF k
      <4>4. (delivered[t] < x[2] /\ x[2] <= k + 1) <=> ((delivered[t] < x[2] /\ x[2] <= k) \/ x[2] = k + 1)
        BY <4>3
      <4> QED
        BY <4>1, <4>2, <4>4
    <3> QED
      BY <3>2, <3>3
  <2>3. Live' = {x \in Thread \X Nat : delivered[x[1]] < x[2] /\ x[2] <= snd'[x[1]].msg}
    BY <1>2 DEF Live
  <2>4. Live = {x \in Thread \X Nat : delivered[x[1]] < x[2] /\ x[2] <= snd[x[1]].msg}
    BY DEF Live
  <2>5. Live' = Live \cup {m}
    BY <1>5, <2>2, <2>3, <2>4
  <2> QED
    BY <2>1, <2>4, <2>5
<1>9. \A x \in Live : g[x] = f[x] /\ g[x] # n
  BY <1>2, <1>6, <1>8, FreeSession
<1>10. \A u \in Thread : delivered[u] < snd[u].msg =>
         /\ delivered[u] \in Nat /\ <<u, delivered[u] + 1>> \in Live
         /\ delivered[u] < snd'[u].msg
  <2> SUFFICES ASSUME NEW u \in Thread, delivered[u] < snd[u].msg
               PROVE  /\ delivered[u] \in Nat /\ <<u, delivered[u] + 1>> \in Live
                      /\ delivered[u] < snd'[u].msg
    OBVIOUS
  <2>1. delivered[u] \in Nat /\ snd[u].msg \in Nat
    BY SenderType
  <2>2. <<u, delivered[u] + 1>> \in Live
    BY <2>1 DEF Live
  <2>3. delivered[u] < snd'[u].msg
    BY <1>3, <1>4, <2>1
  <2> QED
    BY <2>1, <2>2, <2>3
<1>11. SidInv(g)'
  <2>1. \A x, y \in Live' : g[x] = g[y] => x = y
    BY <1>1, <1>6, <1>8, <1>9 DEF SidInv
  <2>2. ASSUME NEW u \in Thread, snd'[u].msg > 0
        PROVE  g[<<u, snd'[u].msg>>] = WireSid(SrcOf[u], snd'[u].sid)
    <3>1. CASE u = t
      BY <1>4, <1>6, <3>1 DEF m, n
    <3>2. CASE u # t
      <4>1. snd'[u] = snd[u] /\ snd[u].msg \in Nat
        BY <1>4, <3>2, SenderType
      <4>2. <<u, snd[u].msg>> \in Thread \X Nat /\ <<u, snd[u].msg>> # m
        BY <3>2, <4>1 DEF m
      <4>3. f[<<u, snd[u].msg>>] = WireSid(SrcOf[u], snd[u].sid)
        BY <1>1, <2>2, <4>1 DEF SidInv
      <4> QED
        BY <1>6, <4>1, <4>2, <4>3
    <3> QED
      BY <3>1, <3>2
  <2> QED
    BY <1>6, <2>1, <2>2 DEF SidInv
<1>12. \A z \in Source : \A x \in DOMAIN net[z] :
         LET p == net[z][x].part IN <<p[1], p[2]>> \in Thread \X Nat /\ <<p[1], p[2]>> # m
  <2> SUFFICES ASSUME NEW z \in Source, NEW x \in DOMAIN net[z]
               PROVE  /\ <<net[z][x].part[1], net[z][x].part[2]>> \in Thread \X Nat
                      /\ <<net[z][x].part[1], net[z][x].part[2]>> # m
    OBVIOUS
  <2> DEFINE p == net[z][x].part
  <2>1. p \in Place /\ SrcOf[p[1]] = z
    BY <1>1 DEF ChunksInv
  <2>2. InNet(p)
    BY <2>1 DEF InNet
  <2>3. Sent(p)
    BY <1>1, <2>1, <2>2 DEF NetInv
  <2> HIDE DEF p
  <2>4. p[1] \in Thread /\ p[2] \in Nat /\ p[2] > 0
    BY <2>1, PlaceType
  <2>5. snd[p[1]].msg \in Nat
    BY <2>4, SenderType
  <2>6. p[2] <= snd[p[1]].msg
    BY <2>3, <2>4, <2>5 DEF Sent
  <2>7. <<p[1], p[2]>> # m
    <3>1. CASE p[1] # t
      BY <3>1 DEF m
    <3>2. CASE p[1] = t
      <4>1. p[2] <= k
        BY <2>6, <3>2
      <4>2. p[2] # k + 1
        BY <1>3, <2>4, <4>1, SMTT(30)
      <4> QED
        BY <4>2 DEF m
    <3> QED
      BY <3>1, <3>2
  <2> QED
    BY <2>4, <2>7 DEF p
<1>13. ChunksInv(g)'
  <2> SUFFICES ASSUME NEW z \in Source, NEW x \in DOMAIN net[z]
               PROVE  net[z][x] = ChunkOf(g, net[z][x].part)
    BY <1>1, <1>2 DEF ChunksInv
  <2>1. net[z][x] = ChunkOf(f, net[z][x].part)
    BY <1>1 DEF ChunksInv
  <2>2. g[<<net[z][x].part[1], net[z][x].part[2]>>] = f[<<net[z][x].part[1], net[z][x].part[2]>>]
    BY <1>6, <1>12
  <2> QED
    BY <2>1, <2>2 DEF ChunkOf
<1>14. \A u \in Thread : Have(g, u)' = Have(f, u)
  <2> SUFFICES ASSUME NEW u \in Thread PROVE Have(g, u)' = Have(f, u)
    OBVIOUS
  <2>1. CASE delivered[u] < snd[u].msg
    <3>1. g[<<u, delivered[u] + 1>>] = f[<<u, delivered[u] + 1>>]
      BY <1>9, <1>10, <2>1
    <3> QED
      BY <1>2, <1>10, <2>1, <3>1 DEF Have, Open
  <2>2. CASE ~(delivered[u] < snd[u].msg) /\ u # t
    BY <1>2, <1>4, <2>2 DEF Have, Open
  <2>3. CASE ~(delivered[u] < snd[u].msg) /\ u = t
    <3>1. Have(f, u) = 0
      BY <2>3 DEF Have, Open
    <3>2. delivered[t] = k
      BY <1>3, <1>7, <2>3
    <3>3. data_msg_map[n] = NULL
      BY <1>2 DEF InUse
    <3>4. ~Open(g, t)'
      BY <1>2, <1>6, <3>2, <3>3 DEF Open, m
    <3> QED
      BY <2>3, <3>1, <3>4 DEF Have
  <2> QED
    BY <2>1, <2>2, <2>3
<1>15. NetInv(g)'
  <2> SUFFICES ASSUME NEW q \in Place
               PROVE  /\ Received(g, q)' => Sent(q)'
                      /\ InNet(q)' <=> (Sent(q)' /\ ~Received(g, q)')
    BY DEF NetInv
  <2>1. q[1] \in Thread /\ q[2] \in Nat /\ q[3] \in Nat /\ q[2] > 0
        /\ q[3] * CHUNK_SZ < MsgLen[q[1]][q[2]] /\ MsgLen[q[1]][q[2]] \in Nat
    BY PlaceType
  <2>2. Received(g, q)' <=> Received(f, q)
    BY <1>2, <1>14, <2>1 DEF Received
  <2>3. InNet(q)' <=> InNet(q)
    BY <1>2 DEF InNet
  <2>4. Sent(q)' <=> Sent(q)
    <3>1. CASE q[1] # t
      BY <1>4, <2>1, <3>1 DEF Sent
    <3>2. CASE q[1] = t
      <4>1. Sent(q)' <=> q[2] <= k
        BY <1>3, <1>4, <2>1, <3>2 DEF Sent
      <4>2. Sent(q) <=> (q[2] < k \/ (q[2] = k /\ q[3] < snd[t].seq))
        BY <3>2 DEF Sent
      <4>3. q[2] = k => q[3] < snd[t].seq
        <5> SUFFICES ASSUME q[2] = k, snd[t].seq <= q[3] PROVE FALSE
          BY <1>3, <2>1
        <5>1. snd[t].seq * CHUNK_SZ <= q[3] * CHUNK_SZ
          BY <1>3, <2>1, ChunkSize, TimesMonotone
        <5>2. snd[t].seq * CHUNK_SZ \in Nat /\ q[3] * CHUNK_SZ \in Nat
          BY <1>3, <2>1, TimesChunk
        <5>3. ~(snd[t].seq * CHUNK_SZ < MsgLen[t][k])
          BY <1>2, <2>1
        <5> HIDE DEF k
        <5>4. q[3] * CHUNK_SZ < MsgLen[t][k] /\ MsgLen[t][k] \in Nat
          BY <2>1, <3>2
        <5> QED
          BY <5>1, <5>2, <5>3, <5>4
      <4> QED
        BY <1>3, <2>1, <4>1, <4>2, <4>3
    <3> QED
      BY <3>1, <3>2
  <2> QED
    BY <1>1, <2>2, <2>3, <2>4 DEF NetInv
<1>16. DataInv(g)'
  <2> SUFFICES ASSUME NEW h \in Sid, data_msg_map[h] # NULL
               PROVE  \E u \in Thread : /\ delivered[u] < snd'[u].msg
                                        /\ h = g[<<u, delivered[u] + 1>>]
                                        /\ Partial(data_msg_map[h], u, delivered[u] + 1)
    BY <1>2 DEF DataInv, Partial
  <2>1. PICK u \in Thread : /\ delivered[u] < snd[u].msg
                            /\ h = f[<<u, delivered[u] + 1>>]
                            /\ Partial(data_msg_map[h], u, delivered[u] + 1)
    BY <1>1 DEF DataInv
  <2> QED
    BY <1>9, <1>10, <2>1
<1>17. CurrInv' /\ OrderInv'
  BY <1>2 DEF CurrInv, OrderInv
<1>18. SessionInv(g)'
  BY <1>11, <1>13, <1>15, <1>16 DEF SessionInv
<1> QED
  BY <1>6, <1>17, <1>18

-----------------------------------------------------------------------------
(***************************************************************************)
(* Queues, their count and who waits.                                      *)
(***************************************************************************)
LEMMA SlotsAre ==
  ASSUME NEW queues \in [Source -> Seq(Data)]
  PROVE  /\ Slots(queues) = {x \in Source \X Nat : 0 < x[2] /\ x[2] <= Len(queues[x[1]])}
         /\ \A s \in Source : Len(queues[s]) \in Nat
<1>1. \A s \in Source : /\ Len(queues[s]) \in Nat
                        /\ DOMAIN queues[s] = 1 .. Len(queues[s])
  OBVIOUS
<1>2. ASSUME NEW x
      PROVE  x \in Slots(queues) <=> \E s \in Source : x \in {s} \X (1 .. Len(queues[s]))
  BY <1>1 DEF Slots
<1>3. ASSUME NEW x
      PROVE  (\E s \in Source : x \in {s} \X (1 .. Len(queues[s])))
             <=> (x \in Source \X Nat /\ 0 < x[2] /\ x[2] <= Len(queues[x[1]]))
  <2>1. ASSUME NEW s \in Source, x \in {s} \X (1 .. Len(queues[s]))
        PROVE  x \in Source \X Nat /\ 0 < x[2] /\ x[2] <= Len(queues[x[1]])
    <3>1. x = <<x[1], x[2]>> /\ x[1] = s /\ x[2] \in 1 .. Len(queues[s])
      BY <2>1
    <3> QED
      BY <1>1, <2>1, <3>1
  <2>2. ASSUME x \in Source \X Nat, 0 < x[2], x[2] <= Len(queues[x[1]])
        PROVE  \E s \in Source : x \in {s} \X (1 .. Len(queues[s]))
    <3>1. x = <<x[1], x[2]>> /\ x[1] \in Source /\ x[2] \in Nat
      BY <2>2
    <3>2. x[2] \in 1 .. Len(queues[x[1]])
      BY <1>1, <2>2, <3>1
    <3>3. x \in {x[1]} \X (1 .. Len(queues[x[1]]))
      BY <3>1, <3>2
    <3> QED
      BY <3>1, <3>3
  <2> QED
    BY <2>1, <2>2
<1> QED
  BY <1>1, <1>2, <1>3

(***************************************************************************)
(* One message more in a queue, or one less, is one more or less in all.   *)
(***************************************************************************)
LEMMA OneMore ==
  ASSUME TypeOK, TypeOK', NEW s \in Source, IsFiniteSet(InQueues),
         Len(recvd_data_msg_queues'[s]) = Len(recvd_data_msg_queues[s]) + 1,
         \A z \in Source : z # s => recvd_data_msg_queues'[z] = recvd_data_msg_queues[z]
  PROVE  IsFiniteSet(InQueues') /\ QueuedMessages' = QueuedMessages + 1 /\ QueuedMessages \in Nat
<1> DEFINE n == Len(recvd_data_msg_queues[s])
           m == <<s, n + 1>>
<1>1. InQueues = {x \in Source \X Nat : 0 < x[2] /\ x[2] <= Len(recvd_data_msg_queues[x[1]])} /\ n \in Nat
  BY SlotsAre DEF InQueues, TypeOK
<1>2. InQueues' = {x \in Source \X Nat : 0 < x[2] /\ x[2] <= Len(recvd_data_msg_queues'[x[1]])}
  BY SlotsAre DEF InQueues, TypeOK
<1>3. m \in Source \X Nat /\ m[1] = s /\ m[2] = n + 1
  BY <1>1
<1> HIDE DEF m
<1>4. ASSUME NEW x \in Source \X Nat
      PROVE  (0 < x[2] /\ x[2] <= Len(recvd_data_msg_queues'[x[1]]))
             <=> ((0 < x[2] /\ x[2] <= Len(recvd_data_msg_queues[x[1]])) \/ x = m)
  <2>1. x[1] \in Source /\ x[2] \in Nat /\ x = <<x[1], x[2]>>
    OBVIOUS
  <2>2. CASE x[1] # s
    BY <1>3, <2>1, <2>2
  <2>3. CASE x[1] = s
    <3>1. x = m <=> x[2] = n + 1
      BY <2>1, <2>3 DEF m
    <3>2. Len(recvd_data_msg_queues'[x[1]]) = n + 1 /\ Len(recvd_data_msg_queues[x[1]]) = n
      BY <2>3
    <3> HIDE DEF n
    <3>3. (0 < x[2] /\ x[2] <= n + 1) <=> ((0 < x[2] /\ x[2] <= n) \/ x[2] = n + 1)
      BY <1>1, <2>1
    <3> QED
      BY <3>1, <3>2, <3>3
  <2> QED
    BY <2>2, <2>3
<1>5. m \notin InQueues
  <2>1. ~(n + 1 <= n)
    BY <1>1
  <2> QED
    BY <1>1, <1>3, <2>1
<1>6. InQueues' = InQueues \cup {m}
  BY <1>1, <1>2, <1>3, <1>4
<1>7. Cardinality(InQueues') = Cardinality(InQueues) + 1 /\ IsFiniteSet(InQueues')
  BY <1>5, <1>6, FS_AddElement
<1> QED
  BY <1>7, FS_CardinalityType DEF QueuedMessages, InQueues, Slots

LEMMA OneLess ==
  ASSUME TypeOK, TypeOK', NEW s \in Source, IsFiniteSet(InQueues),
         Len(recvd_data_msg_queues[s]) = Len(recvd_data_msg_queues'[s]) + 1,
         \A z \in Source : z # s => recvd_data_msg_queues'[z] = recvd_data_msg_queues[z]
  PROVE  IsFiniteSet(InQueues') /\ QueuedMessages' = QueuedMessages - 1 /\ QueuedMessages' \in Nat
<1> DEFINE n == Len(recvd_data_msg_queues'[s])
           m == <<s, n + 1>>
<1>1. InQueues = {x \in Source \X Nat : 0 < x[2] /\ x[2] <= Len(recvd_data_msg_queues[x[1]])}
  BY SlotsAre DEF InQueues, TypeOK
<1>2. InQueues' = {x \in Source \X Nat : 0 < x[2] /\ x[2] <= Len(recvd_data_msg_queues'[x[1]])} /\ n \in Nat
  BY SlotsAre DEF InQueues, TypeOK
<1>3. m \in Source \X Nat /\ m[1] = s /\ m[2] = n + 1
  BY <1>2
<1> HIDE DEF m
<1>4. ASSUME NEW x \in Source \X Nat
      PROVE  (0 < x[2] /\ x[2] <= Len(recvd_data_msg_queues[x[1]]))
             <=> ((0 < x[2] /\ x[2] <= Len(recvd_data_msg_queues'[x[1]])) \/ x = m)
  <2>1. x[1] \in Source /\ x[2] \in Nat /\ x = <<x[1], x[2]>>
    OBVIOUS
  <2>2. CASE x[1] # s
    BY <1>3, <2>1, <2>2
  <2>3. CASE x[1] = s
    <3>1. x = m <=> x[2] = n + 1
      BY <2>1, <2>3 DEF m
    <3>2. Len(recvd_data_msg_queues[x[1]]) = n + 1 /\ Len(recvd_data_msg_queues'[x[1]]) = n
      BY <2>3
    <3> HIDE DEF n
    <3>3. (0 < x[2] /\ x[2] <= n + 1) <=> ((0 < x[2] /\ x[2] <= n) \/ x[2] = n + 1)
      BY <1>2, <2>1
    <3> QED
      BY <3>1, <3>2, <3>3
  <2> QED
    BY <2>2, <2>3
<1>5. m \notin InQueues'
  <2>1. ~(n + 1 <= n)
    BY <1>2
  <2> QED
    BY <1>2, <1>3, <2>1
<1>6. InQueues = InQueues' \cup {m}
  BY <1>1, <1>2, <1>3, <1>4
<1>7. IsFiniteSet(InQueues')
  <2>1. InQueues' \subseteq InQueues
    BY <1>6
  <2> QED
    BY <2>1, FS_Subset
<1>8. Cardinality(InQueues) = Cardinality(InQueues') + 1
  BY <1>5, <1>6, <1>7, FS_AddElement
<1>9. Cardinality(InQueues') \in Nat
  BY <1>7, FS_CardinalityType
<1> QED
  BY <1>7, <1>8, <1>9 DEF QueuedMessages, InQueues, Slots

LEMMA NoneQueued ==
  ASSUME NonEmpty = {}, TypeOK
  PROVE  QueuedMessages = 0
<1>1. \A s \in Source : recvd_data_msg_queues[s] = <<>>
  BY DEF NonEmpty
<1>2. \A s \in Source : DOMAIN recvd_data_msg_queues[s] = {}
  BY <1>1
<1>3. InQueues = {}
  BY <1>2 DEF InQueues, Slots
<1> QED
  BY <1>3, FS_EmptySet DEF QueuedMessages, InQueues, Slots

LEMMA SomeQueued ==
  ASSUME TypeOK, IsFiniteSet(InQueues), QueuedMessages <= 0
  PROVE  NonEmpty = {}
<1> SUFFICES ASSUME NEW s \in Source, recvd_data_msg_queues[s] # <<>> PROVE FALSE
  BY DEF NonEmpty
<1>1. 1 \in DOMAIN recvd_data_msg_queues[s]
  BY DEF TypeOK
<1>2. <<s, 1>> \in InQueues
  BY <1>1 DEF InQueues, Slots
<1>3. Cardinality(InQueues) \in Nat /\ Cardinality(InQueues) <= 0
  BY FS_CardinalityType DEF QueuedMessages, InQueues, Slots
<1>4. InQueues = {}
  BY <1>3, FS_EmptySet
<1> QED
  BY <1>2, <1>4

LEMMA QueuesKept ==
  ASSUME QueueInv, CountInv, UNCHANGED <<recvd_data_msg_queues, unacked, garbage, empty, call>>
  PROVE  QueueInv' /\ CountInv'
<1>1. QueueInv'
  BY DEF QueueInv
<1>2. InQueues' = InQueues /\ QueuedMessages' = QueuedMessages /\ NonEmpty' = NonEmpty
  BY DEF InQueues, Slots, QueuedMessages, NonEmpty
<1> QED
  BY <1>1, <1>2 DEF CountInv, UnackedMatches, NoLostWakeup

LEMMA LastChunk ==
  ASSUME NEW t \in Thread, NEW k \in Nat, NEW j \in Nat, <<t, k, j>> \in Place,
         ~((j + 1) * CHUNK_SZ < MsgLen[t][k])
  PROVE  IsWhole(DataOf(t, k, j + 1), t, k)
<1> DEFINE n == j + 1
           d == DataOf(t, k, n)
<1>1. j * CHUNK_SZ < MsgLen[t][k] /\ MsgLen[t][k] \in Nat
  <2>1. <<t, k, j>>[1] = t /\ <<t, k, j>>[2] = k /\ <<t, k, j>>[3] = j
    OBVIOUS
  <2> QED
    BY <2>1, PlaceType
<1>2. n \in Nat /\ n > 0 /\ n - 1 = j
  OBVIOUS
<1>3. (n - 1) * CHUNK_SZ < MsgLen[t][k]
  BY <1>1, <1>2
<1>4. MsgLen[t][k] <= n * CHUNK_SZ
  <2>1. n * CHUNK_SZ \in Nat
    BY <1>2, TimesChunk
  <2> QED
    BY <1>1, <2>1
<1>5. d = DataOf(t, k, n)
  OBVIOUS
<1> HIDE DEF n, d
<1>6. IsWhole(d, t, k)
  BY <1>2, <1>3, <1>4, <1>5 DEF IsWhole
<1> QED
  BY <1>6 DEF n, d

LEMMA DeliverQueues ==
  ASSUME TypeOK, TypeOK', QueueInv, CountInv, NEW s \in Source, Reads(s),
         NEW f \in [Thread \X Nat -> Sid],
         NEW t \in Thread, NEW k \in Nat, NEW j \in Nat, <<t, k, j>> \in Place,
         Delivers(f, s, t, k, j)
  PROVE  QueueInv' /\ CountInv'
<1> DEFINE d == DataOf(t, k, j + 1)
           q == recvd_data_msg_queues[s]
<1>1. /\ recvd_data_msg_queues' = [recvd_data_msg_queues EXCEPT ![s] = Append(q, d)]
      /\ unacked' = unacked + 1 /\ call' = [r \in Caller |-> "call"]
      /\ ~((j + 1) * CHUNK_SZ < MsgLen[t][k])
      /\ garbage' = garbage /\ empty' = empty
  BY DEF Delivers, Reads
<1>2. k \in DOMAIN MsgLen[t] /\ j * CHUNK_SZ < MsgLen[t][k] /\ MsgLen[t][k] \in Nat
  <2>1. <<t, k, j>>[1] = t /\ <<t, k, j>>[2] = k /\ <<t, k, j>>[3] = j
    OBVIOUS
  <2> QED
    BY <2>1, PlaceType
<1>3. IsWhole(d, t, k)
  BY <1>1, LastChunk
<1>4. d \in Data
  BY <1>2, DataOfType
<1> HIDE DEF d
<1>5. recvd_data_msg_queues \in [Source -> Seq(Data)] /\ q \in Seq(Data)
  BY DEF TypeOK
<1>6. /\ recvd_data_msg_queues'[s] = Append(q, d)
      /\ \A z \in Source : z # s => recvd_data_msg_queues'[z] = recvd_data_msg_queues[z]
  BY <1>1, <1>5
<1>7. Len(q) \in Nat /\ DOMAIN q = 1 .. Len(q) /\ Len(Append(q, d)) = Len(q) + 1
      /\ DOMAIN Append(q, d) = 1 .. Len(q) + 1
  BY <1>4, <1>5
<1>8. QueueInv'
  <2> SUFFICES ASSUME NEW z \in Source, NEW x \in DOMAIN recvd_data_msg_queues'[z]
               PROVE  \E u \in Thread : \E l \in DOMAIN MsgLen[u] : IsWhole(recvd_data_msg_queues'[z][x], u, l)
    BY DEF QueueInv, IsWhole
  <2>1. CASE z # s
    BY <1>6, <2>1 DEF QueueInv
  <2>2. CASE z = s
    <3>1. x \in 1 .. Len(q) + 1
      BY <1>6, <1>7, <2>2
    <3>2. CASE x = Len(q) + 1
      <4>1. recvd_data_msg_queues'[z][x] = d
        BY <1>4, <1>5, <1>6, <1>7, <2>2, <3>2
      <4> QED
        BY <1>2, <1>3, <4>1
    <3>3. CASE x \in 1 .. Len(q)
      <4>1. recvd_data_msg_queues'[z][x] = q[x]
        BY <1>4, <1>5, <1>6, <1>7, <2>2, <3>3
      <4> QED
        BY <1>7, <3>3, <4>1 DEF QueueInv
    <3> QED
      BY <1>7, <3>1, <3>2, <3>3
  <2> QED
    BY <2>1, <2>2
<1>9. IsFiniteSet(InQueues') /\ QueuedMessages' = QueuedMessages + 1 /\ QueuedMessages \in Nat
  BY <1>6, <1>7, OneMore DEF CountInv
<1>10. UnackedMatches'
  <2>1. unacked \in Int /\ empty \in Nat /\ garbage \in Int
    BY ReceiverAssumption DEF TypeOK, ReceiverAssumption
  <2> QED
    BY <1>1, <1>9, <2>1 DEF CountInv, UnackedMatches
<1>11. NoLostWakeup'
  BY <1>1 DEF NoLostWakeup
<1> QED
  BY <1>1, <1>8, <1>9, <1>10, <1>11 DEF CountInv

LEMMA TakeQueues ==
  ASSUME TypeOK, TypeOK', QueueInv, IsFiniteSet(InQueues), NEW s \in NonEmpty, Take(s)
  PROVE  /\ QueueInv'
         /\ IsFiniteSet(InQueues') /\ QueuedMessages' = QueuedMessages - 1 /\ QueuedMessages' \in Nat
         /\ \A z \in Source : recvd_data_msg_queues[z] = <<>> => recvd_data_msg_queues'[z] = <<>>
<1> DEFINE q == recvd_data_msg_queues[s]
<1>1. recvd_data_msg_queues' = [recvd_data_msg_queues EXCEPT ![s] = Tail(q)]
  BY DEF Take
<1>2. /\ recvd_data_msg_queues \in [Source -> Seq(Data)] /\ s \in Source /\ q \in Seq(Data) /\ q # <<>>
  BY DEF TypeOK, NonEmpty
<1>3. /\ recvd_data_msg_queues'[s] = Tail(q)
      /\ \A z \in Source : z # s => recvd_data_msg_queues'[z] = recvd_data_msg_queues[z]
  BY <1>1, <1>2
<1> HIDE DEF q
<1>4. Len(q) \in Nat /\ DOMAIN q = 1 .. Len(q) /\ Len(Tail(q)) = Len(q) - 1
      /\ DOMAIN Tail(q) = 1 .. Len(q) - 1
  BY <1>2
<1>5. \A x \in 1 .. Len(q) - 1 : Tail(q)[x] = q[x + 1] /\ x + 1 \in 1 .. Len(q)
  BY <1>2, <1>4
<1>6. QueueInv'
  <2> SUFFICES ASSUME NEW z \in Source, NEW x \in DOMAIN recvd_data_msg_queues'[z]
               PROVE  \E u \in Thread : \E l \in DOMAIN MsgLen[u] : IsWhole(recvd_data_msg_queues'[z][x], u, l)
    BY DEF QueueInv, IsWhole
  <2>1. CASE z # s
    BY <1>3, <2>1 DEF QueueInv
  <2>2. CASE z = s
    <3>1. x \in 1 .. Len(q) - 1
      BY <1>3, <1>4, <2>2
    <3>2. recvd_data_msg_queues'[z][x] = q[x + 1] /\ x + 1 \in DOMAIN q
      BY <1>3, <1>4, <1>5, <2>2, <3>1
    <3> QED
      BY <1>2, <3>2 DEF QueueInv, q
  <2> QED
    BY <2>1, <2>2
<1>7. Len(recvd_data_msg_queues[s]) = Len(recvd_data_msg_queues'[s]) + 1
  BY <1>3, <1>4 DEF q
<1>8. IsFiniteSet(InQueues') /\ QueuedMessages' = QueuedMessages - 1 /\ QueuedMessages' \in Nat
  BY <1>2, <1>3, <1>7, OneLess
<1>9. \A z \in Source : recvd_data_msg_queues[z] = <<>> => recvd_data_msg_queues'[z] = <<>>
  BY <1>2, <1>3 DEF q
<1> QED
  BY <1>6, <1>8, <1>9

LEMMA QueuedNat ==
  ASSUME IsFiniteSet(InQueues)
  PROVE  QueuedMessages \in Nat
BY FS_CardinalityType DEF QueuedMessages, InQueues, Slots

LEMMA ReceiveQueues ==
  ASSUME TypeOK, TypeOK', QueueInv, CountInv, NEW r \in Caller,
         comm_node_recv_data(r) \/ comm_node_recv_any_data(r) \/ SpuriousWakeup(r)
  PROVE  QueueInv' /\ CountInv'
<1>1. /\ IsFiniteSet(InQueues) /\ UnackedMatches /\ (empty = 0 \/ empty <= garbage) /\ NoLostWakeup
      /\ QueuedMessages \in Nat
  BY QueuedNat DEF CountInv
<1>2. unacked \in Int /\ empty \in Nat /\ garbage \in Int /\ call \in [Caller -> {"call", "cond_wait"}]
  BY ReceiverAssumption DEF TypeOK, ReceiverAssumption
<1>3. garbage' = garbage
  BY DEF comm_node_recv_data, comm_node_recv_any_data, SpuriousWakeup, cntvars
<1>4. ASSUME UNCHANGED recvd_data_msg_queues
      PROVE  QueueInv' /\ InQueues' = InQueues /\ QueuedMessages' = QueuedMessages /\ NonEmpty' = NonEmpty
  BY <1>4 DEF QueueInv, InQueues, Slots, QueuedMessages, NonEmpty
<1>5. CASE comm_node_recv_data(r) \/ SpuriousWakeup(r)
  <2>1. UNCHANGED <<recvd_data_msg_queues, unacked, empty>>
    BY <1>5 DEF comm_node_recv_data, SpuriousWakeup, cntvars
  <2>2. \/ call' = call
        \/ call' = [call EXCEPT ![r] = "call"]
        \/ /\ call' = [call EXCEPT ![r] = "cond_wait"]
           /\ Want[r] # ANY /\ recvd_data_msg_queues[Want[r]] = <<>>
    BY <1>5 DEF comm_node_recv_data, SpuriousWakeup
  <2>3. NoLostWakeup'
    <3> SUFFICES ASSUME NEW z \in Caller, call'[z] = "cond_wait"
                 PROVE  IF Want[z] = ANY THEN NonEmpty = {} \/ garbage < 0
                        ELSE recvd_data_msg_queues[Want[z]] = <<>>
      BY <1>3, <1>4, <2>1 DEF NoLostWakeup
    <3>1. call[z] = "cond_wait" \/ (z = r /\ Want[r] # ANY /\ recvd_data_msg_queues[Want[r]] = <<>>)
      BY <1>2, <2>2
    <3> QED
      BY <1>1, <3>1 DEF NoLostWakeup
  <2> QED
    BY <1>1, <1>3, <1>4, <2>1, <2>3 DEF CountInv, UnackedMatches
<1>6. CASE comm_node_recv_any_data(r)
  <2>1. CASE NonEmpty # {} /\ unacked' = unacked - 1 /\ Take(First) /\ empty' = empty /\ call' = call
    <3>1. First \in NonEmpty
      BY <2>1, FirstIsSource
    <3>2. /\ QueueInv'
          /\ IsFiniteSet(InQueues') /\ QueuedMessages' = QueuedMessages - 1 /\ QueuedMessages' \in Nat
          /\ \A z \in Source : recvd_data_msg_queues[z] = <<>> => recvd_data_msg_queues'[z] = <<>>
      BY <1>1, <2>1, <3>1, TakeQueues
    <3>3. UnackedMatches'
      BY <1>1, <1>2, <1>3, <2>1, <3>2 DEF UnackedMatches
    <3>4. NoLostWakeup'
      <4> SUFFICES ASSUME NEW z \in Caller, call[z] = "cond_wait"
                   PROVE  IF Want[z] = ANY THEN garbage < 0
                          ELSE recvd_data_msg_queues'[Want[z]] = <<>>
        BY <1>3, <2>1 DEF NoLostWakeup
      <4>1. CASE Want[z] = ANY
        BY <1>1, <2>1, <4>1 DEF NoLostWakeup
      <4>2. CASE Want[z] # ANY
        <5>1. Want[z] \in Source
          BY <4>2, ReceiverAssumption DEF ReceiverAssumption
        <5> QED
          BY <1>1, <3>2, <4>2, <5>1 DEF NoLostWakeup
      <4> QED
        BY <4>1, <4>2
    <3> QED
      BY <1>1, <1>3, <2>1, <3>2, <3>3, <3>4 DEF CountInv
  <2>2. CASE /\ NonEmpty = {} /\ unacked > 0 /\ unacked' = unacked - 1 /\ empty' = empty + 1
             /\ UNCHANGED <<recvd_data_msg_queues, call>>
    <3>1. QueuedMessages = 0
      BY <2>2, NoneQueued
    <3>2. UnackedMatches' /\ empty' <= garbage'
      BY <1>1, <1>2, <1>3, <1>4, <2>2, <3>1 DEF UnackedMatches
    <3>3. NoLostWakeup'
      BY <1>1, <1>3, <1>4, <2>2 DEF NoLostWakeup
    <3> QED
      BY <1>1, <1>4, <2>2, <3>2, <3>3 DEF CountInv
  <2>3. CASE /\ unacked <= 0 /\ call' = [call EXCEPT ![r] = "cond_wait"] /\ Want[r] = ANY
             /\ UNCHANGED <<recvd_data_msg_queues, unacked, empty>>
    <3>1. NonEmpty = {} \/ garbage < 0
      <4>1. QueuedMessages <= 0 \/ garbage < 0
        BY <1>1, <1>2, <2>3 DEF UnackedMatches
      <4> QED
        BY <1>1, <4>1, SomeQueued
    <3>2. NoLostWakeup'
      <4> SUFFICES ASSUME NEW z \in Caller, call'[z] = "cond_wait"
                   PROVE  IF Want[z] = ANY THEN NonEmpty = {} \/ garbage < 0
                          ELSE recvd_data_msg_queues[Want[z]] = <<>>
        BY <1>3, <1>4, <2>3 DEF NoLostWakeup
      <4>1. call[z] = "cond_wait" \/ z = r
        BY <1>2, <2>3
      <4> QED
        BY <1>1, <2>3, <3>1, <4>1 DEF NoLostWakeup
    <3> QED
      BY <1>1, <1>3, <1>4, <2>3, <3>2 DEF CountInv, UnackedMatches
  <2> QED
    BY <1>6, <2>1, <2>2, <2>3 DEF comm_node_recv_any_data
<1> QED
  BY <1>5, <1>6

-----------------------------------------------------------------------------
(***************************************************************************)
(* The invariant holds at first and every step keeps it.                   *)
(***************************************************************************)
LEMMA InitInvariant ==
  ASSUME Init
  PROVE  NInv
<1>1. 0 \in Nat /\ WIDTH \in Nat /\ WIDTH > 0 /\ UnackedInit \subseteq Int
      /\ \A t \in Thread : Len(MsgLen[t]) \in Nat
  BY ReceiverAssumption DEF ReceiverAssumption
<1>2. TypeOK
  <2>1. snd \in [Thread -> [msg : Nat, sid : Nat, off : Nat, seq : Nat]]
        /\ \A t \in Thread : snd[t].msg = 0
    BY DEF Init
  <2>2. net \in [Source -> Seq(ChunkType)] /\ recvd_data_msg_queues \in [Source -> Seq(Data)]
    BY DEF Init
  <2>3. counter \in [Source -> Nat] /\ curr \in [Source -> BOOLEAN] /\ delivered \in [Thread -> Nat]
        /\ data_msg_map \in [Sid -> Data \cup {NULL}] /\ call \in [Caller -> {"call", "cond_wait"}]
    BY DEF Init
  <2>4. unacked \in Int /\ garbage \in UnackedInit /\ empty \in Nat /\ dead \in {"no", "assert", "segv"}
        /\ taken \subseteq Part
    BY <1>1 DEF Init
  <2> QED
    BY <1>1, <2>1, <2>2, <2>3, <2>4 DEF TypeOK
<1>3. SendInv
  <2>1. \A t \in Thread : snd[t].msg = 0 /\ delivered[t] = 0
    BY DEF Init
  <2> QED
    BY <2>1 DEF SendInv
<1>4. OrderInv /\ CurrInv /\ QueueInv /\ AssertsHold
  BY DEF Init, OrderInv, CurrInv, QueueInv, AssertsHold
<1>5. NonEmpty = {} /\ QueuedMessages = 0 /\ IsFiniteSet(InQueues)
  <2>1. NonEmpty = {}
    BY DEF Init, NonEmpty
  <2>2. \A s \in Source : DOMAIN recvd_data_msg_queues[s] = {}
    BY DEF Init
  <2>3. InQueues = {}
    BY <2>2 DEF InQueues, Slots
  <2> QED
    BY <1>2, <2>1, <2>3, NoneQueued, FS_EmptySet
<1>6. CountInv
  <2>1. UnackedMatches
    BY <1>1, <1>5 DEF Init, UnackedMatches
  <2>2. NoLostWakeup /\ empty = 0
    BY DEF Init, NoLostWakeup
  <2> QED
    BY <1>5, <2>1, <2>2 DEF CountInv
<1>7. \E f \in [Thread \X Nat -> Sid] : SessionInv(f) /\ NumbersInv(f)
  <2> DEFINE f == [m \in Thread \X Nat |-> <<0, 0>>]
  <2>1. f \in [Thread \X Nat -> Sid]
    BY <1>1 DEF Sid
  <2> HIDE DEF f
  <2>2. \A t \in Thread : snd[t].msg = 0 /\ snd[t].seq = 0 /\ delivered[t] = 0
    BY DEF Init
  <2>3. Live = {} /\ Began = {}
    <3>1. ASSUME NEW m \in Live PROVE FALSE
      <4>1. m[1] \in Thread /\ m[2] \in Nat /\ delivered[m[1]] < m[2] /\ m[2] <= snd[m[1]].msg
        BY DEF Live
      <4> QED
        BY <2>2, <4>1
    <3>2. ASSUME NEW m \in Began PROVE FALSE
      <4>1. m[1] \in Thread /\ m[2] \in Nat /\ 0 < m[2] /\ m[2] <= snd[m[1]].msg
        BY DEF Began
      <4> QED
        BY <2>2, <4>1
    <3> QED
      BY <3>1, <3>2
  <2>9. NumbersInv(f)
    <3>1. ASSUME NEW s \in Source, NEW m \in Started(s) PROVE FALSE
      <4>1. m[1] \in Thread /\ m[2] \in Nat /\ 0 < m[2] /\ m[2] <= snd[m[1]].msg
        BY DEF Started, Messages
      <4> QED
        BY <2>2, <4>1
    <3>2. \A s \in Source : Started(s) = {}
      BY <3>1
    <3>3. \A s \in Source : counter[s] = Cardinality(Started(s))
      BY <3>2, FS_EmptySet DEF Init
    <3> QED
      BY <2>3, <3>3 DEF NumbersInv
  <2>4. SidInv(f)
    BY <2>1, <2>2, <2>3 DEF SidInv
  <2>5. \A s \in Source : DOMAIN net[s] = {}
    BY DEF Init
  <2>6. ChunksInv(f)
    BY <2>5 DEF ChunksInv
  <2>7. DataInv(f)
    BY DEF DataInv, Init
  <2>8. NetInv(f)
    <3> SUFFICES ASSUME NEW p \in Place PROVE ~Received(f, p) /\ ~InNet(p) /\ ~Sent(p)
      BY DEF NetInv
    <3>1. p[1] \in Thread /\ p[2] \in Nat /\ p[3] \in Nat /\ p[2] > 0
      BY PlaceType
    <3>2. ~InNet(p)
      BY <2>5, <3>1, SourceOf DEF InNet
    <3>3. ~Sent(p)
      BY <2>2, <3>1 DEF Sent
    <3>4. Have(f, p[1]) = 0
      BY <2>2, <3>1 DEF Have, Open
    <3>5. ~Received(f, p)
      BY <2>2, <3>1, <3>4 DEF Received
    <3> QED
      BY <3>2, <3>3, <3>5
  <2> QED
    BY <2>1, <2>4, <2>6, <2>7, <2>8, <2>9 DEF SessionInv
<1> QED
  BY <1>2, <1>3, <1>4, <1>6, <1>7 DEF NInv, CoreInv

(***************************************************************************)
(* Steps of a receive call touch neither chunks nor sessions.              *)
(***************************************************************************)
LEMMA SessionsKept ==
  ASSUME SendInv, OrderInv, CurrInv, NEW f \in [Thread \X Nat -> Sid], SessionInv(f),
         UNCHANGED <<counter, snd, net, curr, data_msg_map, delivered>>
  PROVE  SendInv' /\ OrderInv' /\ CurrInv' /\ SessionInv(f)'
<1>1. SidInv(f)' /\ ChunksInv(f)' /\ OrderInv' /\ CurrInv'
  BY DEF SessionInv, SidInv, Live, ChunksInv, OrderInv, CurrInv
<1>2. NetInv(f)' /\ DataInv(f)'
  BY DEF SessionInv, NetInv, DataInv, Received, Sent, InNet, Have, Open, Partial
<1>3. SendInv'
  BY DEF SendInv
<1> QED
  BY <1>1, <1>2, <1>3 DEF SessionInv

(***************************************************************************)
(* Only comm_node_get_new_sid gives a session; no other step changes what  *)
(* was begun.                                                              *)
(***************************************************************************)
SameSessions(f) == SessionInv(f)' /\ counter' = counter /\ \A t \in Thread : snd'[t].msg = snd[t].msg

NewSession(f, t) ==
  /\ comm_node_get_new_sid(t)
  /\ \A g \in [Thread \X Nat -> Sid] : g = Extended(f, t) => SessionInv(g)'

LEMMA NextSessions ==
  ASSUME NoEmptyMessage, SessionsFree, CoreInv, NEW f \in [Thread \X Nat -> Sid], SessionInv(f), [Next]_vars
  PROVE  CoreInv' /\ (SameSessions(f) \/ \E t \in Thread : NewSession(f, t))
<1> DEFINE Goal == CoreInv' /\ (SameSessions(f) \/ \E t \in Thread : NewSession(f, t))
<1>1. TypeOK /\ SendInv /\ OrderInv /\ CurrInv /\ QueueInv /\ CountInv /\ AssertsHold
  BY DEF CoreInv
<1>2. SessionInv(f)
  OBVIOUS
<1>4. ASSUME NEW t \in Thread, comm_node_get_new_sid(t)
      PROVE  Goal
  <2>1. TypeOK' /\ QueueInv' /\ CountInv'
    BY <1>1, <1>4, SendTypes, QueuesKept DEF comm_node_get_new_sid, cntvars
  <2>2. SendInv'
    BY <1>1, <1>4, BeginEffect
  <2>3. ASSUME NEW g \in [Thread \X Nat -> Sid], g = Extended(f, t)
        PROVE  SessionInv(g)' /\ CurrInv' /\ OrderInv'
    BY <1>1, <1>2, <1>4, <2>3, BeginSessions
  <2>4. AssertsHold'
    BY <1>1, <1>4 DEF AssertsHold, comm_node_get_new_sid
  <2>5. CurrInv' /\ OrderInv'
    BY <1>1, <1>4 DEF CurrInv, OrderInv, comm_node_get_new_sid
  <2>6. CoreInv'
    BY <2>1, <2>2, <2>4, <2>5 DEF CoreInv
  <2>7. NewSession(f, t)
    BY <1>4, <2>3 DEF NewSession
  <2> QED
    BY <2>6, <2>7
<1>5. ASSUME NEW t \in Thread, ioman_send_chunk(t)
      PROVE  Goal
  <2>1. TypeOK' /\ QueueInv' /\ CountInv'
    BY <1>1, <1>5, SendTypes, QueuesKept DEF ioman_send_chunk, cntvars
  <2>2. SessionInv(f)' /\ CurrInv' /\ OrderInv' /\ SendInv'
    BY <1>1, <1>2, <1>5, SendChunkSessions
  <2>3. AssertsHold'
    BY <1>1, <1>5 DEF AssertsHold, ioman_send_chunk
  <2>4. counter' = counter /\ \A u \in Thread : snd'[u].msg = snd[u].msg
    <3>1. /\ counter' = counter
          /\ snd' = [snd EXCEPT ![t] = [snd[t] EXCEPT !.off = snd[t].off + ChunkLen(t), !.seq = snd[t].seq + 1]]
      BY <1>1, <1>5 DEF ioman_send_chunk, TypeOK
    <3> QED
      BY <1>1, <3>1 DEF TypeOK
  <2>5. CoreInv'
    BY <2>1, <2>2, <2>3 DEF CoreInv
  <2> QED
    BY <2>2, <2>4, <2>5 DEF SameSessions
<1>6. ASSUME NEW s \in Source, comm_node_setup_chunk(s)
      PROVE  Goal
  <2>1. TypeOK' /\ QueueInv' /\ CountInv'
    BY <1>1, <1>6, SetupTypes, QueuesKept DEF comm_node_setup_chunk, cntvars
  <2>2. SessionInv(f)' /\ CurrInv' /\ OrderInv'
    BY <1>1, <1>2, <1>6, SetupSessions
  <2>3. SendInv' /\ AssertsHold'
    BY <1>1, <1>6 DEF SendInv, AssertsHold, comm_node_setup_chunk, sndvars
  <2>4. counter' = counter /\ \A u \in Thread : snd'[u].msg = snd[u].msg
    BY <1>6 DEF comm_node_setup_chunk, sndvars
  <2>5. CoreInv'
    BY <2>1, <2>2, <2>3 DEF CoreInv
  <2> QED
    BY <2>2, <2>4, <2>5 DEF SameSessions
<1>7. ASSUME NEW s \in Source, comm_node_handle_chunk(s)
      PROVE  Goal
  <2>1. curr[s] /\ net[s] # <<>>
    BY <1>1, <1>7 DEF comm_node_handle_chunk, CurrInv
  <2>2. TypeOK'
    BY <1>1, <1>7, <2>1, HandleTypes
  <2>3. PICK t \in Thread : \E k, j \in Nat : NextChunk(f, s, t, k, j)
    BY <1>1, <1>2, <2>1, HeadIsNext
  <2>4. PICK k \in Nat, j \in Nat : NextChunk(f, s, t, k, j)
    BY <2>3
  <2>5. /\ Reads(s)
        /\ Advances(f, t, k, j) \/ Delivers(f, s, t, k, j)
        /\ Open(f, t)
    BY <1>1, <1>2, <1>7, <2>1, <2>4, HandleEffect
  <2>6. SessionInv(f)' /\ CurrInv' /\ OrderInv'
    BY <1>1, <1>2, <2>1, <2>4, <2>5, AdvanceSessions, DeliverSessions
  <2>7. QueueInv' /\ CountInv'
    <3>1. CASE Advances(f, t, k, j)
      BY <1>1, <2>5, <3>1, QueuesKept DEF Advances, Reads
    <3>2. CASE Delivers(f, s, t, k, j)
      <4>1. <<t, k, j>> \in Place
        BY <2>4 DEF NextChunk
      <4> QED
        BY <1>1, <2>2, <2>5, <3>2, <4>1, DeliverQueues
    <3> QED
      BY <2>5, <3>1, <3>2
  <2>8. SendInv'
    <3>1. counter' = counter /\ snd' = snd
      BY <2>5 DEF Reads
    <3>2. \A u \in Thread : delivered'[u] <= snd[u].msg
      <4>1. delivered' = delivered \/ (delivered' = [delivered EXCEPT ![t] = k] /\ k <= snd[t].msg)
        BY <2>4, <2>5 DEF Advances, Delivers, NextChunk
      <4> QED
        BY <1>1, <4>1 DEF SendInv, TypeOK
    <3> QED
      BY <1>1, <3>1, <3>2 DEF SendInv
  <2>9. AssertsHold'
    BY <1>1, <2>5 DEF AssertsHold, Reads
  <2>10. counter' = counter /\ \A u \in Thread : snd'[u].msg = snd[u].msg
    BY <2>5 DEF Reads
  <2>11. CoreInv'
    BY <2>2, <2>6, <2>7, <2>8, <2>9 DEF CoreInv
  <2> QED
    BY <2>6, <2>10, <2>11 DEF SameSessions
<1>8. ASSUME NEW r \in Caller,
             comm_node_recv_data(r) \/ comm_node_recv_any_data(r) \/ SpuriousWakeup(r)
      PROVE  Goal
  <2>1. TypeOK'
    BY <1>1, <1>8, ReceiveTypes
  <2>2. QueueInv' /\ CountInv'
    BY <1>1, <1>8, <2>1, ReceiveQueues
  <2>3. UNCHANGED <<counter, snd, net, curr, data_msg_map, delivered>>
    BY <1>8 DEF comm_node_recv_data, comm_node_recv_any_data, SpuriousWakeup, sndvars
  <2>4. SendInv' /\ OrderInv' /\ CurrInv' /\ SessionInv(f)'
    BY <1>1, <1>2, <2>3, SessionsKept
  <2>5. AssertsHold'
    BY <1>1, <1>8 DEF AssertsHold, comm_node_recv_data, comm_node_recv_any_data, SpuriousWakeup
  <2>6. CoreInv'
    BY <2>1, <2>2, <2>4, <2>5 DEF CoreInv
  <2> QED
    BY <2>3, <2>4, <2>6 DEF SameSessions
<1>9. CASE UNCHANGED vars
  <2>1. UNCHANGED <<counter, snd, net, curr, data_msg_map, delivered>>
        /\ UNCHANGED <<recvd_data_msg_queues, unacked, garbage, empty, call>>
        /\ dead' = dead /\ taken' = taken
    BY <1>9 DEF vars
  <2>2. SendInv' /\ OrderInv' /\ CurrInv' /\ SessionInv(f)' /\ QueueInv' /\ CountInv'
    BY <1>1, <1>2, <2>1, SessionsKept, QueuesKept
  <2>3. TypeOK' /\ AssertsHold'
    BY <1>1, <2>1 DEF TypeOK, AssertsHold
  <2>4. CoreInv'
    BY <2>2, <2>3 DEF CoreInv
  <2> QED
    BY <2>1, <2>2, <2>4 DEF SameSessions
<1> QED
  BY <1>4, <1>5, <1>6, <1>7, <1>8, <1>9 DEF Next, IoThread, Receive

LEMMA ExtendedType ==
  ASSUME TypeOK, NEW f \in [Thread \X Nat -> Sid], NEW t \in Thread
  PROVE  Extended(f, t) \in [Thread \X Nat -> Sid]
<1>1. SrcOf[t] \in Source /\ counter[SrcOf[t]] \in Nat
  BY SourceOf DEF TypeOK
<1> QED
  BY <1>1, WireSidType DEF Extended

LEMMA NextInvariant ==
  ASSUME NoEmptyMessage, SessionsFree, IInv, [Next]_vars
  PROVE  IInv'
<1>1. PICK f \in [Thread \X Nat -> Sid] : SessionInv(f)
  BY DEF IInv
<1>2. CoreInv' /\ (SameSessions(f) \/ \E t \in Thread : NewSession(f, t))
  BY <1>1, NextSessions DEF IInv
<1>3. CASE SameSessions(f)
  BY <1>2, <1>3 DEF IInv, SameSessions
<1>4. ASSUME NEW t \in Thread, NewSession(f, t)
      PROVE  IInv'
  <2>1. PICK g \in [Thread \X Nat -> Sid] : g = Extended(f, t)
    BY ExtendedType DEF IInv, CoreInv
  <2>2. SessionInv(g)'
    BY <1>4, <2>1 DEF NewSession
  <2> QED
    BY <1>2, <2>2 DEF IInv
<1> QED
  BY <1>2, <1>3, <1>4

-----------------------------------------------------------------------------
(***************************************************************************)
(* comm_node_setup_chunk, comm_node_handle_chunk and the receive calls, in *)
(* any order of chunks and calls: no assertion of data_msg_push_chunk      *)
(* fails, data_msg_unacked_recvd follows the queues, and nobody waits      *)
(* beside a message for it.                                                *)
(***************************************************************************)
THEOREM MessagesConsistent ==
  ASSUME NoEmptyMessage
  PROVE  Spec /\ []SessionsFree => []MailboxConsistent
<1>1. Init => IInv
  BY InitInvariant DEF NInv, IInv
<1>2. IInv /\ SessionsFree /\ [Next]_vars => IInv'
  BY NextInvariant
<1>3. IInv => MailboxConsistent
  BY DEF IInv, CoreInv, CountInv, MailboxConsistent
<1> QED
  BY <1>1, <1>2, <1>3, PTL DEF Spec

-----------------------------------------------------------------------------
(***************************************************************************)
(* Mailbox.  A message of n chunks is recognised as whole.                 *)
(***************************************************************************)
LEMMA RoundedUp ==
  ASSUME NEW L \in Nat, NEW C \in Nat, C > 0, NEW n \in Nat, n > 0, (n - 1) * C < L, L <= n * C
  PROVE  (L + C - 1) \div C = n
<1> DEFINE X == L + C - 1
           q == X \div C
           a == n - 1
<1>1. X \in Nat /\ a \in Nat /\ n = a + 1
  OBVIOUS
<1>2. q \in Nat /\ q * C <= X /\ X < (q + 1) * C
  BY <1>1
<1>3. a * C \in Nat /\ n * C = a * C + C /\ n * C \in Nat
  BY <1>1
<1>4. n * C <= X /\ X < (n + 1) * C
  <2>1. (n + 1) * C = n * C + C
    OBVIOUS
  <2> QED
    BY <1>3, <2>1
<1> HIDE DEF q, X, a
<1>5. ~(q < n)
  <2> SUFFICES ASSUME q + 1 <= n PROVE FALSE
    BY <1>2
  <2>1. q + 1 \in Nat
    BY <1>2
  <2>2. (q + 1) * C <= n * C
    BY <2>1, TimesMonotone
  <2>3. (q + 1) * C \in Nat
    BY <2>1
  <2> QED
    BY <1>1, <1>2, <1>3, <1>4, <2>2, <2>3
<1>6. ~(n < q)
  <2> SUFFICES ASSUME n + 1 <= q PROVE FALSE
    BY <1>2
  <2>1. n + 1 \in Nat
    OBVIOUS
  <2>2. (n + 1) * C <= q * C
    BY <1>2, <2>1, TimesMonotone
  <2>3. (n + 1) * C \in Nat /\ q * C \in Nat
    BY <1>2, <2>1
  <2> QED
    BY <1>1, <1>2, <1>4, <2>2, <2>3
<1>7. q = n
  BY <1>2, <1>5, <1>6
<1> QED
  BY <1>7 DEF q, X

LEMMA WholeMessage ==
  ASSUME NEW t \in Thread, NEW k \in DOMAIN MsgLen[t], NEW d, IsWhole(d, t, k)
  PROVE  AsMessage(d) = <<t, k>> /\ d.parts[1] = <<t, k, 0>>
<1>1. k \in Nat /\ MsgLen[t][k] \in Nat
  BY ReceiverAssumption DEF ReceiverAssumption
<1>2. PICK n \in Nat : /\ n > 0
                       /\ (n - 1) * CHUNK_SZ < MsgLen[t][k]
                       /\ MsgLen[t][k] <= n * CHUNK_SZ
                       /\ d = DataOf(t, k, n)
  BY DEF IsWhole
<1>3. NumChunks(t, k) = n
  BY <1>1, <1>2, ChunkSize, RoundedUp DEF NumChunks
<1>4. d.parts[1] = <<t, k, 0>>
  BY <1>1, WholeParts
<1>5. d.parts = [i \in 1 .. n |-> <<t, k, i - 1>>]
  BY <1>2 DEF DataOf
<1>6. d.parts[1][1] = t /\ d.parts[1][2] = k
  BY <1>4
<1>7. Whole(d)
  BY <1>3, <1>5, <1>6 DEF Whole
<1> QED
  BY <1>4, <1>6, <1>7 DEF AsMessage

(***************************************************************************)
(* A queue as Mailbox sees it.                                             *)
(***************************************************************************)
Messaged(q) == [i \in DOMAIN q |-> AsMessage(q[i])]

LEMMA MessagedType ==
  ASSUME NEW q \in Seq(Data)
  PROVE  /\ Messaged(q) \in Seq({AsMessage(d) : d \in Data}) /\ Len(Messaged(q)) = Len(q)
         /\ \A i \in 1 .. Len(q) : Messaged(q)[i] = AsMessage(q[i])
<1>1. Len(q) \in Nat /\ DOMAIN q = 1 .. Len(q) /\ \A i \in 1 .. Len(q) : q[i] \in Data
  OBVIOUS
<1>2. Messaged(q) = [i \in 1 .. Len(q) |-> AsMessage(q[i])]
  BY <1>1 DEF Messaged
<1> QED
  BY <1>1, <1>2

LEMMA MessagedAppend ==
  ASSUME NEW q \in Seq(Data), NEW d \in Data
  PROVE  Messaged(Append(q, d)) = Append(Messaged(q), AsMessage(d))
<1> DEFINE S == {AsMessage(e) : e \in Data}
           a == Append(q, d)
           b == Append(Messaged(q), AsMessage(d))
<1>1. a \in Seq(Data) /\ Len(q) \in Nat /\ Len(a) = Len(q) + 1
  OBVIOUS
<1>2. Messaged(q) \in Seq(S) /\ Len(Messaged(q)) = Len(q)
      /\ \A i \in 1 .. Len(q) : Messaged(q)[i] = AsMessage(q[i])
  BY MessagedType
<1>3. Messaged(a) \in Seq(S) /\ Len(Messaged(a)) = Len(a)
      /\ \A i \in 1 .. Len(a) : Messaged(a)[i] = AsMessage(a[i])
  BY <1>1, MessagedType
<1>4. AsMessage(d) \in S
  OBVIOUS
<1> HIDE DEF S
<1>5. b \in Seq(S) /\ Len(b) = Len(q) + 1
  BY <1>2, <1>4
<1>6. \A i \in 1 .. Len(q) + 1 : Messaged(a)[i] = b[i]
  <2> SUFFICES ASSUME NEW i \in 1 .. Len(q) + 1 PROVE Messaged(a)[i] = b[i]
    OBVIOUS
  <2>1. CASE i = Len(q) + 1
    <3>1. a[i] = d /\ b[i] = AsMessage(d)
      BY <1>2, <1>4, <2>1
    <3> QED
      BY <1>1, <1>3, <3>1
  <2>2. CASE i \in 1 .. Len(q)
    <3>1. a[i] = q[i]
      BY <2>2
    <3>2. b[i] = Messaged(q)[i]
      BY <1>2, <1>4, <2>2
    <3> QED
      BY <1>1, <1>2, <1>3, <2>2, <3>1, <3>2
  <2>3. i = Len(q) + 1 \/ i \in 1 .. Len(q)
    BY <1>1
  <2> QED
    BY <2>1, <2>2, <2>3
<1> HIDE DEF a, b
<1>7. Messaged(a) = b
  BY <1>1, <1>3, <1>5, <1>6, SeqEqual
<1> QED
  BY <1>7 DEF a, b

LEMMA MessagedTail ==
  ASSUME NEW q \in Seq(Data), q # <<>>
  PROVE  /\ Messaged(Tail(q)) = Tail(Messaged(q))
         /\ Head(Messaged(q)) = AsMessage(Head(q))
         /\ Messaged(q) # <<>>
<1> DEFINE S == {AsMessage(e) : e \in Data}
           a == Tail(q)
           m == Messaged(q)
           b == Tail(m)
<1>1. Len(q) \in Nat /\ Len(q) > 0 /\ a \in Seq(Data) /\ Len(a) = Len(q) - 1
      /\ \A i \in 1 .. Len(q) - 1 : a[i] = q[i + 1]
  OBVIOUS
<1>2. m \in Seq(S) /\ Len(m) = Len(q) /\ \A i \in 1 .. Len(q) : m[i] = AsMessage(q[i])
  BY MessagedType
<1>3. Messaged(a) \in Seq(S) /\ Len(Messaged(a)) = Len(a)
      /\ \A i \in 1 .. Len(a) : Messaged(a)[i] = AsMessage(a[i])
  BY <1>1, MessagedType
<1> HIDE DEF S, a, m
<1>4. m # <<>>
  BY <1>1, <1>2
<1>5. b \in Seq(S) /\ Len(b) = Len(q) - 1 /\ \A i \in 1 .. Len(q) - 1 : b[i] = m[i + 1]
  BY <1>1, <1>2, <1>4
<1>6. \A i \in 1 .. Len(q) - 1 : Messaged(a)[i] = b[i]
  BY <1>1, <1>2, <1>3, <1>5, SMTT(30)
<1> HIDE DEF b
<1>7. Messaged(a) = b
  BY <1>1, <1>3, <1>5, <1>6, SeqEqual
<1>8. Head(m) = m[1] /\ Head(q) = q[1]
  BY <1>1, <1>2, <1>4
<1> QED
  BY <1>1, <1>2, <1>4, <1>7, <1>8 DEF a, b, m

(***************************************************************************)
(* The variables of Mailbox.                                               *)
(***************************************************************************)
sentBox == [t \in Thread |-> snd[t].msg]
queueBox == [s \in Source |-> Messaged(recvd_data_msg_queues[s])]
takenBox == {<<x[1], x[2]>> : x \in taken}
boxvars == <<sentBox, delivered, queueBox, takenBox>>

LEMMA BoxIs ==
  /\ Box!vars = boxvars
  /\ Box!Init <=> /\ sentBox = [t \in Thread |-> 0]
                  /\ delivered = [t \in Thread |-> 0]
                  /\ queueBox = [s \in Source |-> <<>>]
                  /\ takenBox = {}
BY DEF Box!vars, Box!Init, sentBox, queueBox, takenBox, boxvars, Messaged

LEMMA BoxKept ==
  ASSUME TypeOK, TypeOK', \A t \in Thread : snd'[t].msg = snd[t].msg,
         UNCHANGED <<delivered, recvd_data_msg_queues, taken>>
  PROVE  UNCHANGED boxvars
<1>1. sentBox' = sentBox
  BY DEF sentBox
<1>2. queueBox' = queueBox /\ takenBox' = takenBox
  BY DEF queueBox, takenBox, Messaged
<1> QED
  BY <1>1, <1>2 DEF boxvars

LEMMA BoxSend ==
  ASSUME TypeOK, SendInv, NEW t \in Thread, comm_node_get_new_sid(t)
  PROVE  Box!Send(t)
<1>1. /\ snd[t].msg < Len(MsgLen[t])
      /\ snd' = [snd EXCEPT ![t] = [msg |-> snd[t].msg + 1, sid |-> counter[SrcOf[t]], off |-> 0, seq |-> 0]]
      /\ UNCHANGED <<delivered, recvd_data_msg_queues, taken>>
  BY DEF comm_node_get_new_sid
<1>2. snd'[t].msg = snd[t].msg + 1 /\ \A u \in Thread : u # t => snd'[u] = snd[u]
  BY <1>1 DEF TypeOK
<1>3. sentBox' = [sentBox EXCEPT ![t] = sentBox[t] + 1]
  <2>1. \A u \in Thread : snd'[u].msg = IF u = t THEN snd[t].msg + 1 ELSE snd[u].msg
    BY <1>2
  <2>2. sentBox[t] = snd[t].msg
    BY DEF sentBox
  <2> QED
    BY <2>1, <2>2 DEF sentBox
<1>4. queueBox' = queueBox /\ takenBox' = takenBox
  BY <1>1 DEF queueBox, takenBox, Messaged
<1>5. sentBox[t] < [u \in Thread |-> Len(MsgLen[u])][t]
  BY <1>1 DEF sentBox
<1> QED
  BY <1>1, <1>3, <1>4, <1>5 DEF Box!Send, sentBox, queueBox, takenBox, Messaged

LEMMA BoxDeliver ==
  ASSUME TypeOK, SendInv, NEW s \in Source, Reads(s), NEW f,
         NEW t \in Thread, NEW k \in Nat, NEW j \in Nat, SrcOf[t] = s, k = delivered[t] + 1, k <= snd[t].msg,
         <<t, k, j>> \in Place, Delivers(f, s, t, k, j), IsWhole(DataOf(t, k, j + 1), t, k)
  PROVE  Box!Deliver(t)
<1> DEFINE d == DataOf(t, k, j + 1)
           q == recvd_data_msg_queues[s]
<1>1. /\ recvd_data_msg_queues' = [recvd_data_msg_queues EXCEPT ![s] = Append(q, d)]
      /\ delivered' = [delivered EXCEPT ![t] = delivered[t] + 1]
      /\ snd' = snd /\ taken' = taken
  BY DEF Delivers, Reads
<1>2. k \in DOMAIN MsgLen[t]
  <2>1. <<t, k, j>>[1] = t /\ <<t, k, j>>[2] = k
    OBVIOUS
  <2> QED
    BY <2>1, PlaceType
<1>3. d \in Data /\ AsMessage(d) = <<t, k>>
  BY <1>2, DataOfType, WholeMessage
<1> HIDE DEF d
<1>4. recvd_data_msg_queues \in [Source -> Seq(Data)] /\ q \in Seq(Data)
  BY DEF TypeOK
<1>5. Messaged(Append(q, d)) = Append(Messaged(q), <<t, delivered[t] + 1>>)
  BY <1>3, <1>4, MessagedAppend
<1>6. queueBox' = [queueBox EXCEPT ![s] = Append(queueBox[s], <<t, delivered[t] + 1>>)]
  <2>1. queueBox[s] = Messaged(q)
    BY DEF queueBox
  <2>2. \A z \in Source : recvd_data_msg_queues'[z] = IF z = s THEN Append(q, d) ELSE recvd_data_msg_queues[z]
    BY <1>1, <1>4
  <2>3. queueBox' = [z \in Source |-> Messaged(recvd_data_msg_queues'[z])]
    BY DEF queueBox, Messaged
  <2>4. queueBox' = [z \in Source |-> IF z = s THEN Append(Messaged(q), <<t, delivered[t] + 1>>)
                                     ELSE Messaged(recvd_data_msg_queues[z])]
    BY <1>5, <2>2, <2>3
  <2> QED
    BY <2>1, <2>4 DEF queueBox
<1>7. sentBox' = sentBox /\ takenBox' = takenBox
  BY <1>1 DEF sentBox, takenBox
<1>8. delivered[t] < sentBox[t]
  <2>1. delivered[t] \in Nat /\ snd[t].msg \in Nat
    BY SenderType
  <2> QED
    BY <2>1 DEF sentBox
<1> QED
  BY <1>1, <1>6, <1>7, <1>8 DEF Box!Deliver, sentBox, queueBox, takenBox, Messaged

LEMMA BoxReceive ==
  ASSUME TypeOK, QueueInv, NEW s \in NonEmpty, Take(s), UNCHANGED <<snd, delivered>>
  PROVE  Box!Receive(s)
<1> DEFINE q == recvd_data_msg_queues[s]
           d == Head(q)
<1>1. /\ recvd_data_msg_queues' = [recvd_data_msg_queues EXCEPT ![s] = Tail(q)]
      /\ taken' = taken \cup {d.parts[1]}
  BY DEF Take
<1>2. /\ s \in Source /\ recvd_data_msg_queues \in [Source -> Seq(Data)] /\ q \in Seq(Data) /\ q # <<>>
  BY DEF TypeOK, NonEmpty
<1>3. PICK t \in Thread : \E k \in DOMAIN MsgLen[t] : IsWhole(d, t, k) /\ k \in Nat
  BY QueueHead
<1>4. PICK k \in DOMAIN MsgLen[t] : IsWhole(d, t, k)
  BY <1>3
<1>5. AsMessage(d) = <<t, k>> /\ d.parts[1] = <<t, k, 0>>
  BY <1>4, WholeMessage
<1>6. /\ Messaged(Tail(q)) = Tail(Messaged(q))
      /\ Head(Messaged(q)) = <<t, k>>
      /\ Messaged(q) # <<>>
  BY <1>2, <1>5, MessagedTail
<1> HIDE DEF d
<1>7. queueBox[s] = Messaged(q)
  BY <1>2 DEF queueBox
<1>8. queueBox' = [queueBox EXCEPT ![s] = Tail(queueBox[s])]
  <2>1. \A z \in Source : recvd_data_msg_queues'[z] = IF z = s THEN Tail(q) ELSE recvd_data_msg_queues[z]
    BY <1>1, <1>2
  <2>2. queueBox' = [z \in Source |-> Messaged(recvd_data_msg_queues'[z])]
    BY DEF queueBox, Messaged
  <2>3. queueBox' = [z \in Source |-> IF z = s THEN Tail(Messaged(q)) ELSE Messaged(recvd_data_msg_queues[z])]
    BY <1>6, <2>1, <2>2
  <2> QED
    BY <1>2, <1>7, <2>3 DEF queueBox
<1>9. takenBox' = takenBox \cup {Head(queueBox[s])}
  <2>1. takenBox' = {<<x[1], x[2]>> : x \in taken \cup {<<t, k, 0>>}}
    BY <1>1, <1>5 DEF takenBox
  <2>2. takenBox' = takenBox \cup {<<t, k>>}
    <3> DEFINE e == <<t, k, 0>>
    <3>1. <<e[1], e[2]>> = <<t, k>>
      OBVIOUS
    <3> HIDE DEF e
    <3>2. {<<x[1], x[2]>> : x \in taken \cup {e}} = {<<x[1], x[2]>> : x \in taken} \cup {<<e[1], e[2]>>}
      BY Zenon
    <3> QED
      BY <2>1, <3>1, <3>2 DEF takenBox, e
  <2> QED
    BY <1>6, <1>7, <2>2
<1>10. sentBox' = sentBox /\ delivered' = delivered
  BY DEF sentBox
<1> QED
  BY <1>6, <1>7, <1>8, <1>9, <1>10 DEF Box!Receive, sentBox, queueBox, takenBox, Messaged

LEMMA BoxNext ==
  ASSUME NoEmptyMessage, SessionsFree, IInv, [Next]_vars
  PROVE  Box!Next \/ UNCHANGED boxvars
<1>1. TypeOK /\ SendInv /\ OrderInv /\ CurrInv /\ QueueInv
  BY DEF IInv, CoreInv
<1>2. PICK f \in [Thread \X Nat -> Sid] : SessionInv(f)
  BY DEF IInv
<1>3. TypeOK'
  BY NextInvariant DEF IInv, CoreInv
<1>4. ASSUME NEW t \in Thread, comm_node_get_new_sid(t)
      PROVE  Box!Next
  BY <1>1, <1>4, BoxSend DEF Box!Next
<1>5. ASSUME NEW t \in Thread, ioman_send_chunk(t)
      PROVE  UNCHANGED boxvars
  <2>1. snd' = [snd EXCEPT ![t] = [snd[t] EXCEPT !.off = snd[t].off + ChunkLen(t), !.seq = snd[t].seq + 1]]
    BY <1>1, <1>5 DEF ioman_send_chunk, TypeOK
  <2>2. \A u \in Thread : snd'[u].msg = snd[u].msg
    BY <1>1, <2>1 DEF TypeOK
  <2> QED
    BY <1>1, <1>3, <1>5, <2>2, BoxKept DEF ioman_send_chunk
<1>6. ASSUME NEW s \in Source, comm_node_setup_chunk(s)
      PROVE  UNCHANGED boxvars
  BY <1>1, <1>3, <1>6, BoxKept DEF comm_node_setup_chunk, sndvars
<1>7. ASSUME NEW s \in Source, comm_node_handle_chunk(s)
      PROVE  Box!Next \/ UNCHANGED boxvars
  <2>1. curr[s] /\ net[s] # <<>>
    BY <1>1, <1>7 DEF comm_node_handle_chunk, CurrInv
  <2>2. PICK t \in Thread : \E k, j \in Nat : NextChunk(f, s, t, k, j)
    BY <1>1, <1>2, <2>1, HeadIsNext
  <2>3. PICK k \in Nat, j \in Nat : NextChunk(f, s, t, k, j)
    BY <2>2
  <2>4. Reads(s) /\ (Advances(f, t, k, j) \/ Delivers(f, s, t, k, j))
    BY <1>1, <1>2, <1>7, <2>1, <2>3, HandleEffect
  <2>5. CASE Advances(f, t, k, j)
    BY <1>1, <1>3, <2>4, <2>5, BoxKept DEF Advances, Reads
  <2>6. CASE Delivers(f, s, t, k, j)
    <3>1. SrcOf[t] = s /\ k = delivered[t] + 1 /\ k <= snd[t].msg /\ <<t, k, j>> \in Place
      BY <2>3 DEF NextChunk
    <3>2. IsWhole(DataOf(t, k, j + 1), t, k)
      BY <2>6, <3>1, LastChunk DEF Delivers
    <3>3. Box!Deliver(t)
      BY <1>1, <2>4, <2>6, <3>1, <3>2, BoxDeliver
    <3> QED
      BY <3>3 DEF Box!Next
  <2> QED
    BY <2>4, <2>5, <2>6
<1>8. ASSUME NEW r \in Caller,
             comm_node_recv_data(r) \/ comm_node_recv_any_data(r) \/ SpuriousWakeup(r)
      PROVE  Box!Next \/ UNCHANGED boxvars
  <2>1. UNCHANGED <<snd, delivered>>
    BY <1>8 DEF comm_node_recv_data, comm_node_recv_any_data, SpuriousWakeup, sndvars
  <2>2. \/ UNCHANGED <<recvd_data_msg_queues, taken>>
        \/ NonEmpty # {} /\ Take(First)
    BY <1>8 DEF comm_node_recv_data, comm_node_recv_any_data, SpuriousWakeup
  <2>3. CASE UNCHANGED <<recvd_data_msg_queues, taken>>
    BY <1>1, <1>3, <2>1, <2>3, BoxKept
  <2>4. CASE NonEmpty # {} /\ Take(First)
    <3>1. First \in NonEmpty
      BY <2>4, FirstIsSource
    <3>2. PICK s \in NonEmpty : Take(s)
      BY <2>4, <3>1
    <3>3. Box!Receive(s)
      BY <1>1, <2>1, <3>2, BoxReceive
    <3>4. s \in Source
      BY DEF NonEmpty
    <3> QED
      BY <3>3, <3>4 DEF Box!Next
  <2> QED
    BY <2>2, <2>3, <2>4
<1>9. CASE UNCHANGED vars
  BY <1>1, <1>3, <1>9, BoxKept DEF vars
<1> QED
  BY <1>4, <1>5, <1>6, <1>7, <1>8, <1>9 DEF Next, IoThread, Receive

(***************************************************************************)
(* The receiving side of the node API implements Mailbox: what             *)
(* comm_node_deliver_chunk puts into a queue is one whole message, the     *)
(* next of its thread, and receive calls take messages oldest first.       *)
(***************************************************************************)
THEOREM ReceiverImplementsMailbox ==
  ASSUME NoEmptyMessage
  PROVE  Spec /\ []SessionsFree => ImplementsSafeMailbox
<1>1. Init => Box!Init
  <2> SUFFICES ASSUME Init PROVE Box!Init
    OBVIOUS
  <2>1. sentBox = [t \in Thread |-> 0] /\ delivered = [t \in Thread |-> 0] /\ takenBox = {}
    BY DEF Init, sentBox, takenBox
  <2>2. queueBox = [s \in Source |-> <<>>]
    BY DEF Init, queueBox, Messaged
  <2> QED
    BY <2>1, <2>2, BoxIs
<1>2. IInv /\ SessionsFree /\ [Next]_vars => [Box!Next]_(Box!vars)
  <2> SUFFICES ASSUME IInv, SessionsFree, [Next]_vars PROVE Box!Next \/ UNCHANGED Box!vars
    OBVIOUS
  <2>1. UNCHANGED boxvars => UNCHANGED Box!vars
    BY DEF boxvars, Box!vars, sentBox, queueBox, takenBox, Messaged
  <2> QED
    BY <2>1, BoxNext
<1>3. Init => IInv
  BY InitInvariant DEF NInv, IInv
<1>4. IInv /\ SessionsFree /\ [Next]_vars => IInv'
  BY NextInvariant
<1> QED
  BY <1>1, <1>2, <1>3, <1>4, PTL DEF Spec, ImplementsSafeMailbox, Box!SafeSpec

-----------------------------------------------------------------------------
(***************************************************************************)
(* Few messages: a node's counter stays below WIDTH while it has messages  *)
(* to begin, and all sessions given are below the counter.                 *)
(***************************************************************************)
LEMMA StartedFinite ==
  ASSUME FewMessages, NEW s \in Source
  PROVE  /\ IsFiniteSet(Started(s)) /\ Cardinality(Started(s)) \in Nat
         /\ \A m \in Messages(s) : m \notin Started(s) => Cardinality(Started(s)) < WIDTH
<1>1. IsFiniteSet(Messages(s)) /\ Cardinality(Messages(s)) <= WIDTH /\ Started(s) \subseteq Messages(s)
  BY DEF FewMessages, Started
<1>2. IsFiniteSet(Started(s))
  BY <1>1, FS_Subset
<1>3. Cardinality(Started(s)) \in Nat /\ Cardinality(Messages(s)) \in Nat /\ WIDTH \in Nat
  BY <1>1, <1>2, FS_CardinalityType, ReceiverAssumption DEF ReceiverAssumption
<1>4. ASSUME NEW m \in Messages(s), m \notin Started(s)
      PROVE  Cardinality(Started(s)) < WIDTH
  <2>1. Cardinality(Started(s) \cup {m}) = Cardinality(Started(s)) + 1
    BY <1>2, <1>4, FS_AddElement
  <2>2. Cardinality(Started(s) \cup {m}) <= Cardinality(Messages(s))
    BY <1>1, FS_Subset
  <2> QED
    BY <1>1, <1>3, <2>1, <2>2
<1> QED
  BY <1>2, <1>3, <1>4

(***************************************************************************)
(* The next message of a thread that is ready is not begun, so there is a  *)
(* number left.                                                            *)
(***************************************************************************)
LEMMA NumberLeft ==
  ASSUME FewMessages, TypeOK, NEW f \in [Thread \X Nat -> Sid], NumbersInv(f),
         NEW t \in Thread, snd[t].msg < Len(MsgLen[t])
  PROVE  /\ <<t, snd[t].msg + 1>> \in Messages(SrcOf[t]) /\ <<t, snd[t].msg + 1>> \notin Started(SrcOf[t])
         /\ counter[SrcOf[t]] \in Nat /\ counter[SrcOf[t]] < WIDTH
         /\ WireSid(SrcOf[t], counter[SrcOf[t]]) = <<SrcOf[t], counter[SrcOf[t]]>>
<1> DEFINE k == snd[t].msg
           s == SrcOf[t]
<1>1. k \in Nat /\ s \in Source /\ counter[s] \in Nat /\ Len(MsgLen[t]) \in Nat
  <2>1. k \in Nat /\ s \in Source
    BY SenderType, SourceOf
  <2>2. counter[s] \in Nat
    BY <2>1 DEF TypeOK
  <2>3. Len(MsgLen[t]) \in Nat
    BY ReceiverAssumption DEF ReceiverAssumption
  <2> QED
    BY <2>1, <2>2, <2>3
<1>2. k + 1 \in DOMAIN MsgLen[t]
  BY <1>1, MessageLength
<1>3. <<t, k + 1>> \in Messages(s)
  BY <1>1, <1>2 DEF Messages
<1>4. <<t, k + 1>> \notin Started(s)
  <2>1. ~(k + 1 <= k)
    BY <1>1
  <2> QED
    BY <2>1 DEF Started
<1>5. counter[s] < WIDTH
  BY <1>1, <1>3, <1>4, StartedFinite DEF NumbersInv
<1>6. counter[s] % WIDTH = counter[s]
  <2>1. WIDTH \in Nat /\ WIDTH > 0
    BY ReceiverAssumption DEF ReceiverAssumption
  <2> DEFINE c == counter[s]
  <2>2. c \in Nat /\ c < WIDTH
    BY <1>1, <1>5
  <2> HIDE DEF c
  <2>3. c % WIDTH = c
    BY <2>1, <2>2
  <2> QED
    BY <2>3 DEF c
<1> QED
  BY <1>1, <1>3, <1>4, <1>5, <1>6 DEF WireSid

LEMMA NumbersFree ==
  ASSUME NoEmptyMessage, FewMessages, NInv
  PROVE  SessionsFree
<1>1. TypeOK /\ SendInv
  BY DEF NInv, CoreInv
<1>2. PICK f \in [Thread \X Nat -> Sid] : SessionInv(f) /\ NumbersInv(f)
  BY DEF NInv
<1>3. SidInv(f) /\ ChunksInv(f) /\ NetInv(f) /\ DataInv(f)
  BY <1>2 DEF SessionInv
<1> SUFFICES ASSUME NEW t \in Thread, snd[t].msg < Len(MsgLen[t]),
                    InUse(WireSid(SrcOf[t], counter[SrcOf[t]]))
             PROVE  FALSE
  BY DEF SessionsFree
<1> DEFINE s == SrcOf[t]
           i == WireSid(s, counter[s])
<1>4. i = <<s, counter[s]>> /\ counter[s] \in Nat
  BY <1>1, <1>2, NumberLeft
<1>5. ASSUME NEW m \in Began, f[m] = i PROVE FALSE
  <2>1. i[1] = SrcOf[m[1]] /\ i[2] < counter[SrcOf[m[1]]]
    BY <1>2, <1>5 DEF NumbersInv
  <2>2. i[1] = s /\ i[2] = counter[s]
    BY <1>4
  <2> HIDE DEF i, s
  <2>3. counter[s] < counter[s]
    BY <2>1, <2>2
  <2> QED
    BY <1>4, <2>3
<1> HIDE DEF i
<1>6. CASE data_msg_map[i] # NULL
  <2>1. i \in Sid
    BY <1>4, SourceOf, WireSidType DEF i
  <2>2. PICK u \in Thread : delivered[u] < snd[u].msg /\ i = f[<<u, delivered[u] + 1>>]
    BY <1>3, <1>6, <2>1 DEF DataInv
  <2>3. <<u, delivered[u] + 1>> \in Began
    <3>1. delivered[u] \in Nat /\ snd[u].msg \in Nat
      BY <1>1, SenderType
    <3> QED
      BY <2>2, <3>1 DEF Began
  <2> QED
    BY <1>5, <2>2, <2>3
<1>7. ASSUME NEW z \in Source, NEW x \in DOMAIN net[z], net[z][x].sid = i PROVE FALSE
  <2> DEFINE p == net[z][x].part
  <2>1. p \in Place /\ SrcOf[p[1]] = z /\ net[z][x] = ChunkOf(f, p)
    BY <1>3 DEF ChunksInv
  <2>2. i = f[<<p[1], p[2]>>]
    BY <1>7, <2>1 DEF ChunkOf
  <2>3. InNet(p)
    BY <2>1 DEF InNet
  <2>4. Sent(p)
    BY <1>3, <2>1, <2>3 DEF NetInv
  <2> HIDE DEF p
  <2>5. p[1] \in Thread /\ p[2] \in Nat /\ p[2] > 0
    BY <2>1, PlaceType
  <2>6. snd[p[1]].msg \in Nat
    BY <1>1, <2>5, SenderType
  <2>7. <<p[1], p[2]>> \in Began
    BY <2>4, <2>5, <2>6 DEF Sent, Began
  <2> QED
    BY <1>5, <2>2, <2>7
<1>8. ASSUME NEW u \in Thread, Sending(u), WireSid(SrcOf[u], snd[u].sid) = i PROVE FALSE
  <2>1. snd[u].msg \in Nat /\ snd[u].msg > 0
    BY <1>1, <1>8, SenderType DEF Sending
  <2>2. f[<<u, snd[u].msg>>] = i
    BY <1>3, <1>8, <2>1 DEF SidInv
  <2>3. <<u, snd[u].msg>> \in Began
    BY <2>1 DEF Began
  <2> QED
    BY <1>5, <2>2, <2>3
<1> QED
  BY <1>6, <1>7, <1>8 DEF InUse, i

(***************************************************************************)
(* Beginning a message takes the counter as its number.                    *)
(***************************************************************************)
LEMMA BeginNumbers ==
  ASSUME FewMessages, TypeOK, NEW f \in [Thread \X Nat -> Sid], NumbersInv(f),
         NEW t \in Thread, comm_node_get_new_sid(t),
         NEW g \in [Thread \X Nat -> Sid], g = Extended(f, t)
  PROVE  NumbersInv(g)'
<1> DEFINE k == snd[t].msg
           s == SrcOf[t]
           m == <<t, k + 1>>
<1>1. /\ k < Len(MsgLen[t])
      /\ snd' = [snd EXCEPT ![t] = [msg |-> k + 1, sid |-> counter[s], off |-> 0, seq |-> 0]]
      /\ counter' = [counter EXCEPT ![s] = counter[s] + 1]
  BY DEF comm_node_get_new_sid
<1>2. /\ m \in Messages(s) /\ m \notin Started(s)
      /\ counter[s] \in Nat /\ counter[s] < WIDTH
      /\ WireSid(s, counter[s]) = <<s, counter[s]>>
  BY <1>1, NumberLeft
<1>3. k \in Nat /\ s \in Source /\ counter \in [Source -> Nat]
  BY SenderType, SourceOf DEF TypeOK
<1>4. /\ snd'[t].msg = k + 1 /\ \A u \in Thread : u # t => snd'[u] = snd[u]
      /\ counter'[s] = counter[s] + 1
      /\ \A z \in Source : z # s => counter'[z] = counter[z]
  BY <1>1, <1>3 DEF TypeOK
<1>5. m \in Thread \X Nat /\ m[1] = t /\ m[2] = k + 1
  BY <1>3
<1>6. /\ g[m] = <<s, counter[s]>>
      /\ \A x \in Thread \X Nat : x # m => g[x] = f[x]
  BY <1>2, <1>5 DEF Extended
<1> HIDE DEF m
<1>7. ASSUME NEW x \in Thread \X Nat
      PROVE  (0 < x[2] /\ x[2] <= snd'[x[1]].msg) <=> ((0 < x[2] /\ x[2] <= snd[x[1]].msg) \/ x = m)
  <2>1. x[1] \in Thread /\ x[2] \in Nat /\ x = <<x[1], x[2]>>
    OBVIOUS
  <2>2. CASE x[1] # t
    BY <1>4, <1>5, <2>1, <2>2
  <2>3. CASE x[1] = t
    <3>1. x = m <=> x[2] = k + 1
      BY <2>1, <2>3 DEF m
    <3>2. snd'[x[1]].msg = k + 1 /\ snd[x[1]].msg = k
      BY <1>4, <2>3
    <3>3. k \in Nat /\ x[2] \in Nat
      BY <1>3, <2>1
    <3> HIDE DEF k
    <3>4. (0 < x[2] /\ x[2] <= k + 1) <=> ((0 < x[2] /\ x[2] <= k) \/ x[2] = k + 1)
      BY <3>3
    <3> QED
      BY <3>1, <3>2, <3>4
  <2> QED
    BY <2>2, <2>3
<1>8. \A x \in Began' : x = m \/ (x \in Began /\ x # m)
  BY <1>7 DEF Began
<1>9. \A x \in Began' : g[x][1] = SrcOf[x[1]] /\ g[x][2] < counter'[SrcOf[x[1]]]
  <2> SUFFICES ASSUME NEW x \in Began' PROVE g[x][1] = SrcOf[x[1]] /\ g[x][2] < counter'[SrcOf[x[1]]]
    OBVIOUS
  <2>1. CASE x = m
    <3>1. g[x][1] = s /\ g[x][2] = counter[s] /\ SrcOf[x[1]] = s
      BY <1>5, <1>6, <2>1
    <3> QED
      BY <1>2, <1>4, <3>1
  <2>2. CASE x \in Began /\ x # m
    <3>1. x \in Thread \X Nat
      BY <2>2 DEF Began
    <3>2. g[x] = f[x] /\ f[x][1] = SrcOf[x[1]] /\ f[x][2] < counter[SrcOf[x[1]]]
      BY <1>6, <2>2, <3>1 DEF NumbersInv
    <3>3. SrcOf[x[1]] \in Source
      BY <3>1, SourceOf
    <3>4. f[x][2] \in Int
      BY <3>1 DEF Sid
    <3>5. counter'[SrcOf[x[1]]] = counter[SrcOf[x[1]]] \/ counter'[SrcOf[x[1]]] = counter[SrcOf[x[1]]] + 1
      BY <1>4, <3>3
    <3>6. counter[SrcOf[x[1]]] \in Nat
      BY <1>3, <3>3
    <3> QED
      BY <3>2, <3>4, <3>5, <3>6
  <2> QED
    BY <1>8, <2>1, <2>2
<1>10. Started(s)' = Started(s) \cup {m}
  <2>1. Messages(s)' = Messages(s)
    BY DEF Messages
  <2>2. Messages(s) \subseteq Thread \X Nat
    BY DEF Messages
  <2>3. Started(s)' = {x \in Messages(s) : 0 < x[2] /\ x[2] <= snd'[x[1]].msg}
    BY <2>1 DEF Started
  <2>4. Started(s) = {x \in Messages(s) : 0 < x[2] /\ x[2] <= snd[x[1]].msg}
    BY DEF Started
  <2> QED
    BY <1>2, <1>7, <2>2, <2>3, <2>4
<1>11. \A z \in Source : z # s => Started(z)' = Started(z)
  <2> SUFFICES ASSUME NEW z \in Source, z # s PROVE Started(z)' = Started(z)
    OBVIOUS
  <2>1. \A x \in Messages(z) : x[1] \in Thread /\ x[1] # t
    BY DEF Messages
  <2>2. \A x \in Messages(z) : snd'[x[1]] = snd[x[1]]
    BY <1>4, <2>1
  <2>3. Messages(z)' = Messages(z)
    BY DEF Messages
  <2> QED
    BY <2>2, <2>3 DEF Started
<1>12. IsFiniteSet(Started(s)) /\ counter[s] = Cardinality(Started(s))
  BY <1>3, StartedFinite DEF NumbersInv
<1>13. Cardinality(Started(s)') = counter[s] + 1
  BY <1>2, <1>10, <1>12, FS_AddElement, ZenonT(60)
<1>14. \A z \in Source : counter'[z] = Cardinality(Started(z)')
  <2> SUFFICES ASSUME NEW z \in Source PROVE counter'[z] = Cardinality(Started(z)')
    OBVIOUS
  <2>1. CASE z = s
    BY <1>4, <1>13, <2>1
  <2>2. CASE z # s
    BY <1>4, <1>11, <2>2 DEF NumbersInv
  <2> QED
    BY <2>1, <2>2
<1> QED
  BY <1>9, <1>14 DEF NumbersInv

LEMMA NextNumbers ==
  ASSUME NoEmptyMessage, FewMessages, NInv, [Next]_vars
  PROVE  NInv'
<1>1. SessionsFree
  BY NumbersFree
<1>2. PICK f \in [Thread \X Nat -> Sid] : SessionInv(f) /\ NumbersInv(f)
  BY DEF NInv
<1>3. CoreInv' /\ (SameSessions(f) \/ \E t \in Thread : NewSession(f, t))
  BY <1>1, <1>2, NextSessions DEF NInv
<1>4. CASE SameSessions(f)
  <2>1. counter' = counter /\ \A t \in Thread : snd'[t].msg = snd[t].msg
    BY <1>4 DEF SameSessions
  <2>2. Began' = Began
    BY <2>1 DEF Began
  <2>3. ASSUME NEW s \in Source PROVE Started(s)' = Started(s)
    <3>1. Messages(s)' = Messages(s) /\ \A m \in Messages(s) : m[1] \in Thread
      BY DEF Messages
    <3> QED
      BY <2>1, <3>1 DEF Started
  <2>4. NumbersInv(f)'
    BY <1>2, <2>1, <2>2, <2>3 DEF NumbersInv
  <2> QED
    BY <1>3, <1>4, <2>4 DEF NInv, SameSessions
<1>5. ASSUME NEW t \in Thread, NewSession(f, t)
      PROVE  NInv'
  <2>1. TypeOK
    BY DEF NInv, CoreInv
  <2>2. PICK g \in [Thread \X Nat -> Sid] : g = Extended(f, t)
    BY <2>1, ExtendedType
  <2>3. SessionInv(g)' /\ comm_node_get_new_sid(t)
    BY <1>5, <2>2 DEF NewSession
  <2>4. NumbersInv(g)'
    BY <1>2, <2>1, <2>2, <2>3, BeginNumbers
  <2> QED
    BY <1>3, <2>3, <2>4 DEF NInv
<1> QED
  BY <1>3, <1>4, <1>5

(***************************************************************************)
(* With no more messages per node than sessions, comm_node_get_new_sid     *)
(* never gives one that is in use.                                         *)
(***************************************************************************)
THEOREM SessionsSuffice ==
  ASSUME NoEmptyMessage, FewMessages
  PROVE  Spec => []SessionsFree
<1>1. Init => NInv
  BY InitInvariant
<1>2. NInv /\ [Next]_vars => NInv'
  BY NextNumbers
<1>3. NInv => SessionsFree
  BY NumbersFree
<1> QED
  BY <1>1, <1>2, <1>3, PTL DEF Spec

(***************************************************************************)
(* Hence all of this holds for programs that send few messages.            *)
(***************************************************************************)
THEOREM FewMessagesReceived ==
  ASSUME NoEmptyMessage, FewMessages
  PROVE  Spec => []MailboxConsistent /\ ImplementsSafeMailbox
BY SessionsSuffice, MessagesConsistent, ReceiverImplementsMailbox, PTL
=============================================================================
