-------------------------- MODULE IpcServerProofs --------------------------
(***************************************************************************)
(* Proofs about IpcServer for any number of clients, any event length,     *)
(* buffer limit and kernel buffer.                                         *)
(***************************************************************************)
EXTENDS IpcServer, SequenceTheorems, TLAPS

(* A client that is not connected has nothing buffered and nothing owed,   *)
(* so a new connection starts with an empty stream.                        *)
IdleOutput ==
  \A c \in Clients \ clients :
    /\ wbuf[c] = <<>> /\ sock[c] = <<>> /\ got[c] = <<>> /\ log[c] = <<>>
    /\ wsize[c] = FirstSize

Connections == clients \subseteq Clients /\ hang \subseteq clients /\ wsrc \subseteq clients

(* The inductive invariant of the server's output side.                    *)
OutInv ==
  /\ Connections /\ OutputTypes /\ IdleOutput
  /\ StreamIntact /\ WriterArmed /\ BufferFits

-----------------------------------------------------------------------------
(* The doubling loop ends with a size that holds what is needed.           *)
LEMMA GrowFits ==
  ASSUME NEW size \in Sizes, NEW need \in Nat, need <= MaxBuf + EvLen
  PROVE  Grow(size, need) \in Sizes /\ need < Grow(size, need)
<1>1. need \in 0 .. MaxBuf + EvLen
  BY IpcAssumption
<1>2. \E s \in Sizes : need < s /\ \A r \in Sizes : need < r => s <= r
  BY <1>1, IpcAssumption
<1> QED
  BY <1>2 DEF Grow

(* An event is EvLen bytes.                                                *)
LEMMA EventBytes ==
  ASSUME NEW e \in Nat
  PROVE  Bytes(e) \in Seq(Nat) /\ Len(Bytes(e)) = EvLen
<1>1. EvLen \in Nat
  BY IpcAssumption
<1>2. Bytes(e) \in [1 .. EvLen -> Nat]
  BY DEF Bytes
<1>3. Bytes(e) \in Seq(Nat)
  BY <1>1, <1>2, SeqDef
<1> QED
  BY <1>1, <1>2, <1>3, LenProperties DEF Bytes

(* Concatenation of event bytes is associative.                            *)
LEMMA Associative ==
  \A g, s, w \in Seq(Nat) : (g \o s) \o w = g \o (s \o w)
BY ConcatAssociative, SMT

(* What write() took of a buffer and what the memmove left of it.          *)
LEMMA WrittenAndLeft ==
  ASSUME NEW w \in Seq(Nat), NEW k \in 0 .. Len(w)
  PROVE  /\ SubSeq(w, 1, k) \in Seq(Nat) /\ Written(w, k) \in Seq(Nat)
         /\ Len(Written(w, k)) = Len(w) - k
         /\ SubSeq(w, 1, k) \o Written(w, k) = w
<1>1. Len(w) \in Nat /\ k \in Nat /\ \A i \in 1 .. Len(w) : w[i] \in Nat
  BY LenProperties, ElementOfSeq
<1>2. SubSeq(w, 1, k) \in Seq(Nat)
  <2>1. \A i \in 1 .. k : w[i] \in Nat
    BY <1>1
  <2> QED
    BY <2>1, <1>1, SubSeqProperties
<1>3. Written(w, k) \in Seq(Nat) /\ Len(Written(w, k)) = Len(w) - k
  <2>1. \A i \in k + 1 .. Len(w) : w[i] \in Nat
    BY <1>1
  <2> QED
    BY <2>1, <1>1, SubSeqProperties DEF Written
<1>4. SubSeq(w, 1, k) \o Written(w, k) = w
  <2>1. 1 \in 1 .. Len(w) + 1 /\ k \in 1 - 1 .. Len(w) /\ Len(w) \in k .. Len(w)
    BY <1>1
  <2>2. SubSeq(w, 1, k) \o Written(w, k) = SubSeq(w, 1, Len(w))
    BY <2>1, ConcatAdjacentSubSeq DEF Written
  <2> QED
    BY <2>2, SubSeqFull
<1> QED
  BY <1>2, <1>3, <1>4

-----------------------------------------------------------------------------
(* The invariant holds of a server nobody is connected to.                 *)
LEMMA InitOut == Init => OutInv
<1> SUFFICES ASSUME Init PROVE OutInv
  OBVIOUS
<1>1. Connections /\ StreamIntact /\ WriterArmed /\ BufferFits
  BY DEF Init, Connections, StreamIntact, WriterArmed, BufferFits
<1>2. OutputTypes
  BY IpcAssumption DEF Init, OutputTypes
<1>3. IdleOutput
  BY DEF Init, IdleOutput
<1> QED
  BY <1>1, <1>2, <1>3 DEF OutInv

(* Clients that go leave the others untouched.                             *)
LEMMA DisconnectOut ==
  ASSUME OutInv, NEW S, ipc_client_disconnect(S), events' \in Nat
  PROVE  OutInv'
<1>1. Connections'
  BY DEF OutInv, Connections, ipc_client_disconnect, Unwatched
<1>2. OutputTypes'
  BY IpcAssumption DEF OutInv, OutputTypes, ipc_client_disconnect, Cleared
<1>3. IdleOutput'
  BY DEF OutInv, IdleOutput, ipc_client_disconnect, Cleared, Connections
<1>4. StreamIntact'
  BY DEF OutInv, StreamIntact, ipc_client_disconnect, Cleared, Connections
<1>5. WriterArmed'
  BY DEF OutInv, WriterArmed, ipc_client_disconnect, Cleared, Connections, Unwatched
<1>6. BufferFits'
  BY DEF OutInv, BufferFits, ipc_client_disconnect, Cleared, Connections
<1> QED
  BY <1>1, <1>2, <1>3, <1>4, <1>5, <1>6 DEF OutInv

(* An event goes to every client that is kept; the write buffer of a kept  *)
(* client has grown enough and not too much.                               *)
LEMMA SendOut ==
  ASSUME OutInv, ipc_send_event
  PROVE  OutInv'
<1> DEFINE size(c) == Grow(wsize[c], Len(wbuf[c]) + EvLen)
           dropped == {c \in clients : size(c) > MaxBuf}
           kept == clients \ dropped
           b == Bytes(events + 1)
<1>1. /\ clients' = kept /\ hang' = hang \ dropped /\ wsrc' = (wsrc \cup clients) \ dropped
      /\ wsize' = [c \in Clients |-> IF c \in kept THEN size(c)
                                     ELSE IF c \in dropped THEN FirstSize ELSE wsize[c]]
      /\ wbuf' = [c \in Clients |-> IF c \in kept THEN wbuf[c] \o b ELSE <<>>]
      /\ log' = [c \in Clients |-> IF c \in kept THEN log[c] \o b ELSE <<>>]
      /\ sock' = [c \in Clients |-> IF c \in dropped THEN <<>> ELSE sock[c]]
      /\ got' = [c \in Clients |-> IF c \in dropped THEN <<>> ELSE got[c]]
      /\ events' = events + 1
  BY DEF ipc_send_event, Rearmed, Cleared
<1>2. b \in Seq(Nat) /\ Len(b) = EvLen /\ EvLen \in Nat /\ events' \in Nat
  BY <1>1, EventBytes, IpcAssumption DEF OutInv, OutputTypes
<1>3. ASSUME NEW c \in clients
      PROVE  /\ c \in Clients
             /\ wbuf[c] \in Seq(Nat) /\ log[c] \in Seq(Nat)
             /\ sock[c] \in Seq(Nat) /\ got[c] \in Seq(Nat)
             /\ size(c) \in Sizes /\ Len(wbuf[c]) + EvLen < size(c)
             /\ got[c] \o sock[c] \o wbuf[c] = log[c]
  <2>1. c \in Clients /\ wsize[c] \in Sizes /\ wbuf[c] \in Seq(Nat) /\ log[c] \in Seq(Nat)
        /\ sock[c] \in Seq(Nat) /\ got[c] \in Seq(Nat)
        /\ got[c] \o sock[c] \o wbuf[c] = log[c]
    BY DEF OutInv, Connections, OutputTypes, StreamIntact
  <2>2. Len(wbuf[c]) \in Nat /\ Len(wbuf[c]) < wsize[c] /\ wsize[c] <= MaxBuf
    BY <2>1, LenProperties DEF OutInv, BufferFits
  <2>3. wsize[c] \in Nat /\ MaxBuf \in Nat /\ EvLen \in Nat
    BY <2>1, IpcAssumption
  <2> DEFINE n == Len(wbuf[c])
  <2>4. n \in Nat /\ n < wsize[c] /\ wsize[c] <= MaxBuf
    BY <2>2
  <2> HIDE DEF n
  <2>5. n + EvLen \in Nat /\ n + EvLen <= MaxBuf + EvLen
    BY <2>3, <2>4
  <2> QED
    BY <2>1, <2>5, GrowFits DEF n
<1> HIDE DEF size, b
<1>3a. ASSUME NEW c \in clients
       PROVE  got[c] \o sock[c] \o (wbuf[c] \o b) = log[c] \o b
  <2> DEFINE h == got[c] \o sock[c]
             w == wbuf[c]
  <2>1. h \in Seq(Nat) /\ w \in Seq(Nat) /\ b \in Seq(Nat)
    BY <1>2, <1>3, ConcatProperties
  <2>2. h \o w = log[c]
    BY <1>3
  <2> HIDE DEF h, w
  <2>3. (h \o w) \o b = h \o (w \o b)
    BY <2>1, Associative
  <2>4. h \o (w \o b) = log[c] \o b
    BY <2>2, <2>3, Zenon
  <2> QED
    BY <2>4 DEF h, w
<1>4. Connections'
  BY <1>1 DEF OutInv, Connections
<1>5. OutputTypes'
  <2>1. wbuf' \in [Clients -> Seq(Nat)] /\ log' \in [Clients -> Seq(Nat)]
    BY <1>1, <1>2, <1>3, ConcatProperties, EmptySeq
  <2>2. sock' \in [Clients -> Seq(Nat)] /\ got' \in [Clients -> Seq(Nat)]
    BY <1>1, EmptySeq DEF OutInv, OutputTypes
  <2>3. wsize' \in [Clients -> Sizes]
    BY <1>1, <1>3, IpcAssumption DEF OutInv, OutputTypes
  <2> QED
    BY <1>2, <2>1, <2>2, <2>3 DEF OutputTypes
<1>6. IdleOutput'
  BY <1>1 DEF OutInv, IdleOutput
<1>7. StreamIntact'
  <2> SUFFICES ASSUME NEW c \in kept
               PROVE  got'[c] \o sock'[c] \o wbuf'[c] = log'[c]
    BY <1>1 DEF StreamIntact
  <2>1. got[c] \o sock[c] \o (wbuf[c] \o b) = log[c] \o b
    BY <1>3a
  <2> QED
    BY <2>1, <1>1, <1>3
<1>8. WriterArmed'
  BY <1>1 DEF WriterArmed
<1>9. BufferFits'
  <2> SUFFICES ASSUME NEW c \in kept
               PROVE  Len(wbuf'[c]) < wsize'[c] /\ wsize'[c] <= MaxBuf
    BY <1>1 DEF BufferFits
  <2>1. Len(wbuf[c] \o b) = Len(wbuf[c]) + EvLen
    BY <1>2, <1>3, ConcatProperties
  <2>2. size(c) \in Sizes /\ ~(size(c) > MaxBuf) /\ size(c) \in Nat /\ MaxBuf \in Nat
    BY <1>3, IpcAssumption
  <2>3. c \in Clients /\ Len(wbuf[c]) + EvLen < size(c)
    BY <1>3
  <2>4. wsize'[c] = size(c) /\ wbuf'[c] = wbuf[c] \o b
    BY <2>3, <1>1
  <2> QED
    BY <2>1, <2>2, <2>3, <2>4
<1> QED
  BY <1>4, <1>5, <1>6, <1>7, <1>8, <1>9 DEF OutInv

(* write() took k bytes of the write buffer into the kernel's.             *)
LEMMA WritableOut ==
  ASSUME OutInv, NEW c \in Clients, NEW k, ipc_client_handle_writable(c, k)
  PROVE  OutInv'
<1> DEFINE a == SubSeq(wbuf[c], 1, k)
           r == Written(wbuf[c], k)
<1>1. /\ c \in clients /\ k \in 0 .. Len(wbuf[c])
      /\ sock' = [sock EXCEPT ![c] = @ \o a]
      /\ wbuf' = [wbuf EXCEPT ![c] = r]
      /\ wsrc' = IF k = Len(wbuf[c]) THEN wsrc \ {c} ELSE wsrc
      /\ UNCHANGED <<clients, hang, wsize, got, log, events>>
  BY DEF ipc_client_handle_writable
<1>2. /\ wbuf[c] \in Seq(Nat) /\ sock[c] \in Seq(Nat) /\ got[c] \in Seq(Nat)
      /\ got[c] \o sock[c] \o wbuf[c] = log[c]
      /\ Len(wbuf[c]) < wsize[c] /\ wsize[c] <= MaxBuf
      /\ Len(wbuf[c]) \in Nat /\ wsize[c] \in Nat
  BY <1>1, LenProperties, IpcAssumption
  DEF OutInv, OutputTypes, StreamIntact, BufferFits
<1>3. a \in Seq(Nat) /\ r \in Seq(Nat) /\ Len(r) = Len(wbuf[c]) - k /\ a \o r = wbuf[c]
  BY <1>1, <1>2, WrittenAndLeft
<1> HIDE DEF a, r
<1>3a. /\ sock[c] \o a \in Seq(Nat)
       /\ got[c] \o (sock[c] \o a) \o r = log[c]
  <2> DEFINE g == got[c]
             s == sock[c]
             h == g \o s
  <2>1. g \in Seq(Nat) /\ s \in Seq(Nat) /\ h \in Seq(Nat) /\ h \o wbuf[c] = log[c]
    BY <1>2, ConcatProperties
  <2> HIDE DEF g, s
  <2>2. s \o a \in Seq(Nat) /\ g \o (s \o a) = h \o a
    BY <1>3, <2>1, Associative, ConcatProperties
  <2> HIDE DEF h
  <2>3. (h \o a) \o r = h \o (a \o r)
    BY <1>3, <2>1, Associative
  <2>4. g \o (s \o a) \o r = log[c]
    BY <1>3, <2>1, <2>2, <2>3, Zenon
  <2> QED
    BY <2>2, <2>4, Zenon DEF g, s
<1>4. Connections'
  BY <1>1 DEF OutInv, Connections
<1>5. OutputTypes'
  BY <1>1, <1>3, <1>3a DEF OutInv, OutputTypes
<1>6. IdleOutput'
  BY <1>1 DEF OutInv, IdleOutput
<1>7. StreamIntact'
  <2>1. got'[c] \o sock'[c] \o wbuf'[c] = log'[c]
    <3>1. got'[c] = got[c] /\ sock'[c] = sock[c] \o a /\ wbuf'[c] = r /\ log'[c] = log[c]
      BY <1>1 DEF OutInv, OutputTypes
    <3> QED
      BY <3>1, <1>3a, Zenon
  <2>2. ASSUME NEW d \in clients, d # c
        PROVE  got'[d] \o sock'[d] \o wbuf'[d] = log'[d]
    <3>1. got'[d] = got[d] /\ sock'[d] = sock[d] /\ wbuf'[d] = wbuf[d] /\ log'[d] = log[d]
      BY <1>1, <2>2 DEF OutInv, OutputTypes, Connections
    <3> QED
      BY <3>1 DEF OutInv, StreamIntact
  <2> QED
    BY <1>1, <2>1, <2>2 DEF StreamIntact
<1>8. WriterArmed'
  <2>1. k = Len(wbuf[c]) => r = <<>>
    BY <1>2, <1>3, EmptySeq
  <2> QED
    BY <1>1, <2>1 DEF OutInv, WriterArmed, OutputTypes, Connections
<1>9. BufferFits'
  <2>1. Len(r) <= Len(wbuf[c])
    BY <1>1, <1>2, <1>3
  <2> QED
    BY <1>1, <1>2, <1>3, <2>1 DEF OutInv, BufferFits, OutputTypes, Connections
<1> QED
  BY <1>4, <1>5, <1>6, <1>7, <1>8, <1>9 DEF OutInv

(* The client reads all the kernel holds.                                  *)
LEMMA ReceiveOut ==
  ASSUME OutInv, NEW c \in Clients, Receive(c)
  PROVE  OutInv'
<1> DEFINE h == got[c] \o sock[c]
<1>1. /\ c \in clients
      /\ got' = [got EXCEPT ![c] = h] /\ sock' = [sock EXCEPT ![c] = <<>>]
      /\ UNCHANGED <<clients, hang, wbuf, wsize, wsrc, log, events>>
  BY DEF Receive
<1>2. h \in Seq(Nat) /\ h \o wbuf[c] = log[c]
  BY <1>1, ConcatProperties DEF OutInv, OutputTypes, StreamIntact
<1> HIDE DEF h
<1>3. h \o <<>> = h
  BY <1>2, ConcatEmptySeq
<1>4. Connections' /\ IdleOutput' /\ WriterArmed' /\ BufferFits'
  BY <1>1 DEF OutInv, Connections, IdleOutput, WriterArmed, BufferFits
<1>5. OutputTypes'
  BY <1>1, <1>2, EmptySeq DEF OutInv, OutputTypes
<1>6. StreamIntact'
  <2>1. got'[c] \o sock'[c] \o wbuf'[c] = log'[c]
    <3>1. got'[c] = h /\ sock'[c] = <<>> /\ wbuf'[c] = wbuf[c] /\ log'[c] = log[c]
      BY <1>1 DEF OutInv, OutputTypes
    <3> QED
      BY <3>1, <1>2, <1>3, Zenon
  <2>2. ASSUME NEW d \in clients, d # c
        PROVE  got'[d] \o sock'[d] \o wbuf'[d] = log'[d]
    <3>1. got'[d] = got[d] /\ sock'[d] = sock[d] /\ wbuf'[d] = wbuf[d] /\ log'[d] = log[d]
      BY <1>1, <2>2 DEF OutInv, OutputTypes, Connections
    <3> QED
      BY <3>1 DEF OutInv, StreamIntact
  <2> QED
    BY <1>1, <2>1, <2>2 DEF StreamIntact
<1> QED
  BY <1>4, <1>5, <1>6 DEF OutInv

(* A new client starts with nothing owed to it.                            *)
LEMMA ConnectOut ==
  ASSUME OutInv, NEW c \in Clients, ipc_handle_connection(c)
  PROVE  OutInv'
<1>1. /\ c \in Clients \ clients
      /\ clients' = clients \cup {c} /\ wsrc' = wsrc \cup {c}
      /\ UNCHANGED <<hang, wbuf, wsize, sock, got, log, events>>
  BY DEF ipc_handle_connection
<1>2. /\ wbuf[c] = <<>> /\ sock[c] = <<>> /\ got[c] = <<>> /\ log[c] = <<>>
      /\ wsize[c] = FirstSize
  BY <1>1 DEF OutInv, IdleOutput
<1>3. Connections' /\ OutputTypes' /\ IdleOutput'
  BY <1>1 DEF OutInv, Connections, OutputTypes, IdleOutput
<1>4. StreamIntact'
  <2>1. got[c] \o sock[c] \o wbuf[c] = log[c]
    BY <1>2
  <2> QED
    BY <1>1, <2>1 DEF OutInv, StreamIntact
<1>5. WriterArmed'
  BY <1>1 DEF OutInv, WriterArmed
<1>6. BufferFits'
  <2>1. Len(wbuf[c]) < wsize[c] /\ wsize[c] <= MaxBuf
    BY <1>2, EmptySeq, IpcAssumption
  <2> QED
    BY <1>1, <2>1 DEF OutInv, BufferFits
<1> QED
  BY <1>3, <1>4, <1>5, <1>6 DEF OutInv

(* Steps that touch neither the output side nor the connections, but for   *)
(* a client that closes its end.                                           *)
LEMMA SameOut ==
  ASSUME OutInv, UNCHANGED <<clients, output, events>>, hang' \subseteq clients
  PROVE  OutInv'
BY DEF OutInv, output, Connections, OutputTypes, IdleOutput, StreamIntact,
       WriterArmed, BufferFits

(* OutInv is inductive: one step for each action.                          *)
LEMMA NextOut == OutInv /\ [Next]_vars => OutInv'
<1> SUFFICES ASSUME OutInv, [Next]_vars PROVE OutInv'
  OBVIOUS
<1>0. hang \subseteq clients /\ events \in Nat
  BY DEF OutInv, Connections, OutputTypes
<1>1. CASE UNCHANGED vars
  BY <1>0, <1>1, SameOut DEF vars, output
<1>2. ASSUME NEW c \in Clients, Receive(c) PROVE OutInv'
  BY <1>2, ReceiveOut
<1>3. ASSUME NEW c \in Clients, Close(c) PROVE OutInv'
  BY <1>0, <1>3, SameOut DEF Close
<1>4. ASSUME NEW c \in Clients, NEW b \in Byte, Send(c, b) PROVE OutInv'
  BY <1>0, <1>4, SameOut DEF Send
<1>5. ASSUME NEW c \in Clients, ipc_handle_connection(c) PROVE OutInv'
  BY <1>5, ConnectOut
<1>6. ASSUME NEW c \in Clients, HangUp(c) \/ SocketError(c) PROVE OutInv'
  <2>1. ipc_client_disconnect({c}) /\ events' \in Nat
    BY <1>0, <1>6 DEF HangUp, SocketError
  <2> QED
    BY <2>1, DisconnectOut
<1>7. ASSUME NEW c \in Clients, ipc_client_handle_readable(c) PROVE OutInv'
  BY <1>0, <1>7, SameOut DEF ipc_client_handle_readable
<1>8. ASSUME NEW c \in Clients, NEW k, ipc_client_handle_writable(c, k) PROVE OutInv'
  BY <1>8, WritableOut
<1>9. CASE RunLine
  <2>1. ipc_send_event \/ UNCHANGED <<clients, hang, output, events>>
    BY <1>9 DEF RunLine
  <2> QED
    BY <1>0, <2>1, SendOut, SameOut
<1>10. CASE EndOfCommands
  BY <1>0, <1>10, SameOut DEF EndOfCommands
<1>11. CASE OtherEvent
  BY <1>11, SendOut DEF OtherEvent
<1>12. CASE handle_display_destroy
  <2>1. ipc_client_disconnect(clients) /\ events' \in Nat
    BY <1>0, <1>12 DEF handle_display_destroy
  <2> QED
    BY <2>1, DisconnectOut
<1> QED
  BY <1>1, <1>2, <1>3, <1>4, <1>5, <1>6, <1>7, <1>8, <1>9, <1>10, <1>11, <1>12 DEF Next

(* No event byte is ever lost, doubled or reordered on its way to a client.*)
THEOREM StreamsIntact == Spec => []StreamIntact
<1>1. OutInv => StreamIntact
  BY DEF OutInv
<1> QED
  BY InitOut, NextOut, <1>1, PTL DEF Spec

(* Bytes that wait in a write buffer always have an event source that will *)
(* write them.                                                             *)
THEOREM WritersArmed == Spec => []WriterArmed
<1>1. OutInv => WriterArmed
  BY DEF OutInv
<1> QED
  BY InitOut, NextOut, <1>1, PTL DEF Spec

(* No write buffer overflows, and none outgrows the limit.                 *)
THEOREM BuffersFit == Spec => []BufferFits
<1>1. OutInv => BufferFits
  BY DEF OutInv
<1> QED
  BY InitOut, NextOut, <1>1, PTL DEF Spec

-----------------------------------------------------------------------------
(* IpcServer implements EventStream: the initial states of the server are  *)
(* initial states of the stream, and every step of the server is one of    *)
(* the stream or leaves it alone.  What waits in a write buffer or in the  *)
(* kernel is the stream's queue.                                           *)

Waiting == [c \in Clients |-> sock[c] \o wbuf[c]]

-----------------------------------------------------------------------------
(* Reading all of the first of two sequences leaves the second.            *)
LEMMA FirstAndRest ==
  ASSUME NEW s \in Seq(Nat), s # <<>>, NEW w \in Seq(Nat)
  PROVE  /\ Len(s) \in 1 .. Len(s \o w)
         /\ SubSeq(s \o w, 1, Len(s)) = s
         /\ SubSeq(s \o w, Len(s) + 1, Len(s \o w)) = w
<1>1. /\ Len(s) \in Nat \ {0} /\ Len(w) \in Nat /\ s \o w \in Seq(Nat)
      /\ Len(s \o w) = Len(s) + Len(w)
  BY EmptySeq, LenProperties, ConcatProperties
<1>2. SubSeq(s \o w, 1, Len(s)) = s
  <2>1. 1 \in 1 .. Len(s) /\ Len(s) \in 1 .. Len(s)
    BY <1>1
  <2>2. SubSeq(s \o w, 1, Len(s)) = SubSeq(s, 1, Len(s))
    BY <2>1, SubSeqOfConcat1
  <2> QED
    BY <2>2, SubSeqFull
<1>3. SubSeq(s \o w, Len(s) + 1, Len(s \o w)) = w
  <2> DEFINE r == SubSeq(s \o w, Len(s) + 1, Len(s \o w))
  <2>1. \A i \in 1 .. Len(s) + Len(w) :
          (s \o w)[i] \in Nat /\ (s \o w)[i] = IF i <= Len(s) THEN s[i] ELSE w[i - Len(s)]
    BY <1>1, ConcatProperties, ElementOfSeq
  <2>2. /\ r \in Seq(Nat) /\ Len(r) = Len(w)
        /\ \A i \in 1 .. Len(w) : r[i] = (s \o w)[Len(s) + i]
    <3>1. \A i \in Len(s) + 1 .. Len(s \o w) : (s \o w)[i] \in Nat
      BY <1>1, <2>1
    <3>2. /\ r \in Seq(Nat)
          /\ Len(r) = IF Len(s) + 1 <= Len(s \o w) THEN Len(s \o w) - (Len(s) + 1) + 1 ELSE 0
          /\ \A i \in 1 .. Len(s \o w) - (Len(s) + 1) + 1 : r[i] = (s \o w)[Len(s) + 1 + i - 1]
      BY <1>1, <3>1, SubSeqProperties
    <3> DEFINE m == Len(s)
               p == Len(w)
    <3>3. /\ m \in Nat /\ p \in Nat
          /\ Len(r) = IF m + 1 <= m + p THEN m + p - (m + 1) + 1 ELSE 0
          /\ \A i \in 1 .. m + p - (m + 1) + 1 : r[i] = (s \o w)[m + 1 + i - 1]
      BY <1>1, <3>2
    <3> HIDE DEF r, m, p
    <3>4. Len(r) = p /\ \A i \in 1 .. p : i \in 1 .. m + p - (m + 1) + 1 /\ m + 1 + i - 1 = m + i
      BY <3>3
    <3>5. \A i \in 1 .. p : r[i] = (s \o w)[m + i]
      BY <3>3, <3>4
    <3> QED
      BY <3>2, <3>4, <3>5 DEF m, p
  <2> HIDE DEF r
  <2>3. \A i \in 1 .. Len(w) : r[i] = w[i]
    BY <1>1, <2>1, <2>2
  <2>4. r = w
    BY <2>2, <2>3, SeqEqual
  <2> QED
    BY <2>4 DEF r
<1> QED
  BY <1>1, <1>2, <1>3

-----------------------------------------------------------------------------
(* Clients that go leave the stream.                                       *)
LEMMA DisconnectLeaves ==
  ASSUME OutInv, NEW S \in SUBSET clients, ipc_client_disconnect(S), events' = events
  PROVE  Stream!Leave(S)
<1>1. /\ clients' = clients \ S
      /\ wbuf' = Cleared(wbuf, S) /\ sock' = Cleared(sock, S) /\ got' = Cleared(got, S)
  BY DEF ipc_client_disconnect
<1>2. <<>> \o <<>> = <<>>
  BY EmptySeq, ConcatEmptySeq
<1>3. Waiting' = [c \in Clients |-> IF c \in S THEN <<>> ELSE Waiting[c]]
  BY <1>1, <1>2 DEF Waiting, Cleared
<1>4. got' = [c \in Clients |-> IF c \in S THEN <<>> ELSE got[c]]
  BY <1>1 DEF Cleared
<1> QED
  BY <1>1, <1>3, <1>4 DEF Stream!Leave, Waiting

(* ipc_send_event puts the event into the stream of the clients it keeps.  *)
LEMMA SendEmits ==
  ASSUME OutInv, ipc_send_event
  PROVE  \E dropped \in SUBSET clients : Stream!Emit(dropped)
<1> DEFINE b == Bytes(events + 1)
<1>0. PICK dropped : dropped = {c \in clients : Grow(wsize[c], Len(wbuf[c]) + EvLen) > MaxBuf}
  OBVIOUS
<1>1. /\ clients' = clients \ dropped /\ events' = events + 1
      /\ wbuf' = [c \in Clients |-> IF c \in clients \ dropped THEN wbuf[c] \o b ELSE <<>>]
      /\ sock' = [c \in Clients |-> IF c \in dropped THEN <<>> ELSE sock[c]]
      /\ got' = [c \in Clients |-> IF c \in dropped THEN <<>> ELSE got[c]]
  BY <1>0 DEF ipc_send_event, Cleared
<1>2. dropped \in SUBSET clients
  BY <1>0
<1>3. b \in Seq(Nat) /\ b = Stream!Bytes(events + 1)
  <2>1. events + 1 \in Nat
    BY DEF OutInv, OutputTypes
  <2>2. Bytes(events + 1) = Stream!Bytes(events + 1)
    BY DEF Bytes, Stream!Bytes
  <2> QED
    BY <2>1, <2>2, EventBytes
<1>4. <<>> \o <<>> = <<>>
  BY EmptySeq, ConcatEmptySeq
<1> HIDE DEF b
<1>5. ASSUME NEW c \in Clients
      PROVE  sock'[c] \o wbuf'[c] = IF c \in clients' THEN Waiting[c] \o b
                                    ELSE IF c \in dropped THEN <<>> ELSE Waiting[c]
  <2>1. CASE c \in clients'
    <3> DEFINE s == sock[c]
               w == wbuf[c]
    <3>1. s \in Seq(Nat) /\ w \in Seq(Nat)
      BY DEF OutInv, OutputTypes
    <3>2. sock'[c] = s /\ wbuf'[c] = w \o b /\ Waiting[c] = s \o w
      BY <1>1, <2>1 DEF Waiting
    <3> HIDE DEF s, w
    <3>3. (s \o w) \o b = s \o (w \o b)
      BY <1>3, <3>1, Associative
    <3>4. sock'[c] \o wbuf'[c] = Waiting[c] \o b
      BY <3>2, <3>3, Zenon
    <3> QED
      BY <2>1, <3>4
  <2>2. CASE c \in dropped
    BY <1>1, <1>4, <2>2
  <2>3. CASE c \notin clients' /\ c \notin dropped
    BY <1>1, <1>4, <2>3 DEF OutInv, IdleOutput, Waiting
  <2> QED
    BY <2>1, <2>2, <2>3, <1>1
<1>6. Stream!Emit(dropped)
  BY <1>1, <1>2, <1>3, <1>5 DEF Stream!Emit, Waiting
<1> QED
  BY <1>2, <1>6, Zenon

(* A client that reads all the kernel holds has the front of its queue     *)
(* delivered.                                                              *)
LEMMA ReceiveDelivers ==
  ASSUME OutInv, NEW c \in Clients, Receive(c)
  PROVE  \E k \in 1 .. Len(Waiting[c]) : Stream!Deliver(c, k)
<1>1. /\ c \in clients /\ sock[c] # <<>>
      /\ got' = [got EXCEPT ![c] = @ \o sock[c]] /\ sock' = [sock EXCEPT ![c] = <<>>]
      /\ UNCHANGED <<clients, wbuf, events>>
  BY DEF Receive
<1>2. sock[c] \in Seq(Nat) /\ wbuf[c] \in Seq(Nat) /\ Waiting[c] = sock[c] \o wbuf[c]
  BY DEF OutInv, OutputTypes, Waiting
<1>3. /\ Len(sock[c]) \in 1 .. Len(Waiting[c])
      /\ SubSeq(Waiting[c], 1, Len(sock[c])) = sock[c]
      /\ SubSeq(Waiting[c], Len(sock[c]) + 1, Len(Waiting[c])) = wbuf[c]
  <2> DEFINE s == sock[c]
             w == wbuf[c]
  <2>1. s \in Seq(Nat) /\ s # <<>> /\ w \in Seq(Nat) /\ Waiting[c] = s \o w
    BY <1>1, <1>2
  <2> HIDE DEF s, w
  <2>2. /\ Len(s) \in 1 .. Len(s \o w)
        /\ SubSeq(s \o w, 1, Len(s)) = s
        /\ SubSeq(s \o w, Len(s) + 1, Len(s \o w)) = w
    BY <2>1, FirstAndRest
  <2> QED
    BY <2>1, <2>2, Zenon DEF s, w
<1>4. Waiting' = [Waiting EXCEPT ![c] = wbuf[c]]
  <2>1. <<>> \o wbuf[c] = wbuf[c]
    BY <1>2, ConcatEmptySeq
  <2> QED
    BY <1>1, <2>1 DEF OutInv, OutputTypes, Waiting
<1>5. got' = [got EXCEPT ![c] = @ \o SubSeq(Waiting[c], 1, Len(sock[c]))]
  BY <1>1, <1>3
<1>6. Waiting' = [Waiting EXCEPT ![c] = SubSeq(@, Len(sock[c]) + 1, Len(@))]
  BY <1>3, <1>4
<1>7. PICK k : k = Len(sock[c])
  OBVIOUS
<1>8. Stream!Deliver(c, k)
  BY <1>1, <1>3, <1>5, <1>6, <1>7 DEF Stream!Deliver, Waiting
<1> QED
  BY <1>3, <1>7, <1>8

(* A write moves bytes from one part of the queue to the other.            *)
LEMMA WritableStutters ==
  ASSUME OutInv, NEW c \in Clients, NEW k, ipc_client_handle_writable(c, k)
  PROVE  UNCHANGED <<clients, events, Waiting, got>>
<1> DEFINE a == SubSeq(wbuf[c], 1, k)
           r == Written(wbuf[c], k)
           s == sock[c]
           w == wbuf[c]
<1>1. /\ k \in 0 .. Len(w)
      /\ sock' = [sock EXCEPT ![c] = s \o a] /\ wbuf' = [wbuf EXCEPT ![c] = r]
      /\ UNCHANGED <<clients, got, events>>
  BY DEF ipc_client_handle_writable
<1>2. s \in Seq(Nat) /\ w \in Seq(Nat)
  BY DEF OutInv, OutputTypes
<1>3. a \in Seq(Nat) /\ r \in Seq(Nat) /\ a \o r = w
  BY <1>1, <1>2, WrittenAndLeft
<1> HIDE DEF a, r, w
<1>4. (s \o a) \o r = s \o (a \o r)
  BY <1>2, <1>3, Associative
<1>5. (s \o a) \o r = sock[c] \o wbuf[c]
  BY <1>3, <1>4, Zenon DEF w
<1>6. Waiting' = Waiting
  <2>1. ASSUME NEW d \in Clients PROVE sock'[d] \o wbuf'[d] = sock[d] \o wbuf[d]
    <3>1. CASE d = c
      BY <1>1, <1>5, <3>1 DEF OutInv, OutputTypes
    <3>2. CASE d # c
      BY <1>1, <3>2 DEF OutInv, OutputTypes
    <3> QED
      BY <3>1, <3>2
  <2> QED
    BY <2>1 DEF Waiting
<1> QED
  BY <1>1, <1>6

(* Nothing is on its way when nobody is connected.                         *)
LEMMA InitStream == Init => Stream!Init
<1> SUFFICES ASSUME Init PROVE Stream!Init
  OBVIOUS
<1>1. <<>> \o <<>> = <<>>
  BY EmptySeq, ConcatEmptySeq
<1> QED
  BY <1>1 DEF Init, Stream!Init

(* Steps that leave the output side as it is.                              *)
LEMMA SameStream ==
  ASSUME UNCHANGED <<clients, events, output>>
  PROVE  UNCHANGED <<clients, events, Waiting, got>>
BY DEF output, Waiting

(* Every step of the server is a step of the stream or none.               *)
LEMMA NextStream == OutInv /\ [Next]_vars => [Stream!Next]_(Stream!vars)
<1> SUFFICES ASSUME OutInv, [Next]_vars PROVE [Stream!Next]_(Stream!vars)
  OBVIOUS
<1>1. UNCHANGED <<clients, events, Waiting, got>> => UNCHANGED Stream!vars
  BY DEF Stream!vars, Waiting
<1>2. (\E S \in SUBSET clients : Stream!Emit(S) \/ Stream!Leave(S)) => Stream!Next
  BY DEF Stream!Next
<1>3. CASE UNCHANGED vars
  BY <1>1, <1>3, SameStream DEF vars, output
<1>4. ASSUME NEW c \in Clients, Receive(c) PROVE Stream!Next
  BY <1>4, ReceiveDelivers DEF Stream!Next, Waiting
<1>5. ASSUME NEW c \in Clients,
             Close(c) \/ (\E b \in Byte : Send(c, b)) \/ ipc_client_handle_readable(c)
      PROVE  UNCHANGED Stream!vars
  BY <1>1, <1>5, SameStream DEF Close, Send, ipc_client_handle_readable
<1>6. ASSUME NEW c \in Clients, ipc_handle_connection(c) PROVE Stream!Next
  <2>1. Stream!Subscribe(c)
    BY <1>6 DEF ipc_handle_connection, Stream!Subscribe
  <2> QED
    BY <2>1 DEF Stream!Next
<1>7. ASSUME NEW c \in Clients, HangUp(c) \/ SocketError(c) PROVE Stream!Next
  <2>1. c \in clients /\ ipc_client_disconnect({c}) /\ events' = events
    BY <1>7 DEF HangUp, SocketError
  <2>2. {c} \in SUBSET clients
    BY <2>1
  <2>3. Stream!Leave({c})
    BY <2>1, <2>2, DisconnectLeaves
  <2> QED
    BY <1>2, <2>2, <2>3, Zenon
<1>8. ASSUME NEW c \in Clients, NEW k, ipc_client_handle_writable(c, k)
      PROVE  UNCHANGED Stream!vars
  BY <1>1, <1>8, WritableStutters
<1>9. CASE RunLine
  <2>1. ipc_send_event \/ UNCHANGED <<clients, events, output>>
    BY <1>9 DEF RunLine
  <2>2. CASE ipc_send_event
    BY <1>2, <2>2, SendEmits, Zenon
  <2>3. CASE UNCHANGED <<clients, events, output>>
    BY <1>1, <2>3, SameStream
  <2> QED
    BY <2>1, <2>2, <2>3
<1>10. CASE EndOfCommands
  BY <1>1, <1>10, SameStream DEF EndOfCommands
<1>11. CASE OtherEvent
  <2>1. ipc_send_event
    BY <1>11 DEF OtherEvent
  <2> QED
    BY <1>2, <2>1, SendEmits, Zenon
<1>12. CASE handle_display_destroy
  <2>1. ipc_client_disconnect(clients) /\ events' = events
    BY <1>12 DEF handle_display_destroy
  <2>2. PICK all : all = clients
    OBVIOUS
  <2>3. all \in SUBSET clients /\ ipc_client_disconnect(all)
    BY <2>1, <2>2 DEF ipc_client_disconnect, Unwatched
  <2>4. Stream!Leave(all)
    BY <2>1, <2>3, DisconnectLeaves
  <2> QED
    BY <1>2, <2>3, <2>4, Zenon
<1> QED
  BY <1>3, <1>4, <1>5, <1>6, <1>7, <1>8, <1>9, <1>10, <1>11, <1>12 DEF Next

(* The server with its partial writes, growing buffers, event sources and  *)
(* disconnections gives every client the stream of events that             *)
(* cagebreak-socket(7) promises, for any number of clients.                *)
THEOREM ServerImplementsStream == Spec => Implements
<1>1. OutInv /\ [Next]_vars => [Stream!Next]_(Stream!vars)
  BY NextStream
<1> QED
  BY InitOut, NextOut, InitStream, <1>1, PTL DEF Spec, Implements, Stream!Spec
=============================================================================
