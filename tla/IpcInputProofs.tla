--------------------------- MODULE IpcInputProofs ---------------------------
(***************************************************************************)
(* Proofs about the input side of IpcServer: its types, and that command   *)
(* text is consumed whole and in order as long as a connection carries     *)
(* less text than read_buf_len can count.                                  *)
(***************************************************************************)
EXTENDS IpcServerProofs, WellFoundedInduction

(* A client that is not connected has sent nothing, so a new connection    *)
(* starts with an empty read buffer.                                       *)
IdleInput ==
  \A c \in Clients \ clients :
    inq[c] = <<>> /\ rbuf[c] = <<>> /\ eaten[c] = <<>> /\ told[c] = <<>>

(* The client whose commands run is connected until one of them frees it.  *)
Running ==
  /\ busy \in Clients \cup {NULL} /\ freed \in BOOLEAN /\ up \in BOOLEAN
  /\ busy # NULL /\ ~freed => busy \in clients

(* The inductive invariant of the server's types.                          *)
TypeInv == OutInv /\ InputTypes /\ IdleInput /\ Running

(* What CommandsComplete needs to be inductive: a connection carries at    *)
(* most MaxTold bytes.                                                     *)
TextInv ==
  /\ CommandsComplete
  /\ \A c \in Clients : Len(told[c]) <= MaxTold

-----------------------------------------------------------------------------
(* Sequences of bytes.                                                     *)

(* A set of natural numbers has a least element.                           *)
LEMMA LeastNat ==
  ASSUME NEW T \in SUBSET Nat, T # {}
  PROVE  \E m \in T : \A k \in T : m <= k
<1>1. PICK m \in T : \A k \in T : <<k, m>> \notin OpToRel(<, Nat)
  BY WFMin, NatLessThanWellFounded, Zenon
<1>2. \A k \in T : ~(k < m)
  BY <1>1, Zenon DEF OpToRel
<1> QED
  BY <1>2

(* The empty text.                                                         *)
LEMMA EmptyText == <<>> \in Seq(Byte) /\ Len(<<>>) = 0
BY EmptySeq

(* Concatenation of text is associative.                                   *)
LEMMA TextAssociative ==
  \A p, q, r \in Seq(Byte) : (p \o q) \o r = p \o (q \o r)
BY ConcatAssociative, SMT

(* The line to run next ends within the text.                              *)
LEMMA LineWithin ==
  ASSUME NEW s \in Seq(Byte)
  PROVE  NewLineAt(s) \in 0 .. Len(s)
<1> DEFINE nl == {i \in 1 .. Len(s) : s[i] = "nl"}
<1>1. Len(s) \in Nat
  BY LenProperties
<1>2. CASE nl = {}
  BY <1>1, <1>2 DEF NewLineAt
<1>3. CASE nl # {}
  <2>1. nl \in SUBSET Nat
    BY <1>1
  <2>2. \E i \in nl : \A j \in nl : i <= j
    BY <1>3, <2>1, LeastNat
  <2>3. NewLineAt(s) \in nl
    BY <1>3, <2>2 DEF NewLineAt
  <2> QED
    BY <1>1, <2>3
<1> QED
  BY <1>2, <1>3

(* Taking a line out of the text and keeping the rest loses nothing.       *)
LEMMA LineAndRest ==
  ASSUME NEW s \in Seq(Byte), NEW n \in 0 .. Len(s)
  PROVE  /\ SubSeq(s, 1, n) \in Seq(Byte) /\ AfterLine(s, n) \in Seq(Byte)
         /\ SubSeq(s, 1, n) \o AfterLine(s, n) = s
<1>1. Len(s) \in Nat /\ n \in Nat /\ \A i \in 1 .. Len(s) : s[i] \in Byte
  BY LenProperties, ElementOfSeq
<1>2. \A i \in 1 .. n : s[i] \in Byte
  BY <1>1
<1>3. \A i \in n + 1 .. Len(s) : s[i] \in Byte
  BY <1>1
<1>4. SubSeq(s, 1, n) \in Seq(Byte)
  BY <1>1, <1>2, SubSeqProperties
<1>5. AfterLine(s, n) \in Seq(Byte)
  BY <1>1, <1>3, SubSeqProperties DEF AfterLine
<1>6. SubSeq(s, 1, n) \o AfterLine(s, n) = s
  <2>1. 1 \in 1 .. Len(s) + 1 /\ n \in 1 - 1 .. Len(s) /\ Len(s) \in n .. Len(s)
    BY <1>1
  <2>2. SubSeq(s, 1, n) \o AfterLine(s, n) = SubSeq(s, 1, Len(s))
    BY <2>1, ConcatAdjacentSubSeq DEF AfterLine
  <2> QED
    BY <2>2, SubSeqFull
<1> QED
  BY <1>4, <1>5, <1>6

(* Text of any length is received as text, and unchanged when its length   *)
(* does not wrap.                                                          *)
LEMMA ReceivedText ==
  ASSUME NEW s \in Seq(Byte)
  PROVE  /\ Received(s) \in Seq(Byte)
         /\ Len(s) < LenMod => Received(s) = s
<1>1. Len(s) \in Nat /\ LenMod \in Nat \ {0} /\ \A i \in 1 .. Len(s) : s[i] \in Byte
  BY LenProperties, ElementOfSeq, IpcAssumption
<1> DEFINE k == Len(s) % LenMod
<1>2. k \in 0 .. Len(s) /\ (Len(s) < LenMod => k = Len(s))
  <2> DEFINE n == Len(s)
  <2>1. n \in Nat
    BY <1>1
  <2> HIDE DEF n
  <2>2. n % LenMod \in 0 .. n /\ (n < LenMod => n % LenMod = n)
    BY <1>1, <2>1
  <2> QED
    BY <2>2 DEF n
<1>3. Received(s) = SubSeq(s, 1, k)
  BY DEF Received
<1> HIDE DEF k
<1>4. \A i \in 1 .. k : s[i] \in Byte
  BY <1>1, <1>2
<1>5. Received(s) \in Seq(Byte)
  BY <1>1, <1>2, <1>3, <1>4, SubSeqProperties
<1>6. Len(s) < LenMod => Received(s) = s
  BY <1>2, <1>3, SubSeqFull
<1> QED
  BY <1>5, <1>6

-----------------------------------------------------------------------------
(* The invariants hold of a server nobody is connected to.                 *)
LEMMA InitInput == Init => InputTypes /\ IdleInput /\ Running /\ TextInv
<1> SUFFICES ASSUME Init PROVE InputTypes /\ IdleInput /\ Running /\ TextInv
  OBVIOUS
<1>1. InputTypes /\ IdleInput /\ Running
  BY EmptySeq DEF Init, InputTypes, IdleInput, Running
<1>2. TextInv
  BY IpcAssumption, EmptySeq DEF Init, TextInv, CommandsComplete
<1> QED
  BY <1>1, <1>2

(* Clients that go leave the text of the others as it was.                 *)
LEMMA DisconnectInput ==
  ASSUME TypeInv, NEW S, ipc_client_disconnect(S)
  PROVE  /\ InputTypes' /\ IdleInput'
         /\ TextInv => TextInv'
<1>1. /\ clients' = clients \ S
      /\ inq' = Cleared(inq, S) /\ rbuf' = Cleared(rbuf, S)
      /\ eaten' = Cleared(eaten, S) /\ told' = Cleared(told, S)
  BY DEF ipc_client_disconnect
<1>2. InputTypes'
  BY <1>1, EmptySeq DEF TypeInv, InputTypes, Cleared
<1>3. IdleInput'
  BY <1>1 DEF TypeInv, IdleInput, Cleared
<1>4. ASSUME TextInv PROVE TextInv'
  <2>1. \A c \in Clients : told'[c] = <<>> \/ told'[c] = told[c]
    BY <1>1 DEF Cleared
  <2>2. \A c \in Clients : Len(told'[c]) <= MaxTold
    <3> SUFFICES ASSUME NEW c \in Clients PROVE Len(told'[c]) <= MaxTold
      OBVIOUS
    <3>1. CASE told'[c] = <<>>
      BY <3>1, EmptyText, IpcAssumption
    <3>2. CASE told'[c] = told[c]
      BY <3>2, <1>4 DEF TextInv
    <3> QED
      BY <2>1, <3>1, <3>2
  <2>3. CommandsComplete'
    BY <1>1, <1>4 DEF TextInv, CommandsComplete, Cleared, TypeInv, OutInv, Connections
  <2> QED
    BY <2>2, <2>3 DEF TextInv
<1> QED
  BY <1>2, <1>3, <1>4

(* An event may drop clients, the busy one with them; the others keep the  *)
(* text they have sent.                                                    *)
LEMMA SendInput ==
  ASSUME TypeInv, ipc_send_event
  PROVE  /\ clients' \subseteq clients
         /\ inq' = Cleared(inq, clients \ clients')
         /\ told' = Cleared(told, clients \ clients')
         /\ freed' \in BOOLEAN /\ up' = up
         /\ ~freed' => ~freed /\ (busy \in clients => busy \in clients')
<1> DEFINE dropped == {c \in clients : Grow(wsize[c], Len(wbuf[c]) + EvLen) > MaxBuf}
<1>1. /\ clients' = clients \ dropped
      /\ inq' = Cleared(inq, dropped) /\ told' = Cleared(told, dropped)
      /\ freed' = (freed \/ busy \in dropped) /\ up' = up
  BY DEF ipc_send_event
<1>2. clients \ clients' = dropped
  BY <1>1
<1> HIDE DEF dropped
<1>3. freed' \in BOOLEAN
  BY <1>1 DEF TypeInv, Running
<1> QED
  BY <1>1, <1>2, <1>3

(* The input side after a step that sets rbuf and eaten to r and e, but    *)
(* for the clients an event drops.                                         *)
LEMMA ClearedInput ==
  ASSUME TypeInv, clients' \subseteq clients,
         NEW r \in [Clients -> Seq(Byte)], NEW e \in [Clients -> Seq(Byte)],
         \A c \in Clients \ clients : r[c] = <<>> /\ e[c] = <<>>,
         \A c \in clients : e[c] \o r[c] = eaten[c] \o rbuf[c],
         inq' = Cleared(inq, clients \ clients'), told' = Cleared(told, clients \ clients'),
         rbuf' = Cleared(r, clients \ clients'), eaten' = Cleared(e, clients \ clients')
  PROVE  /\ InputTypes' /\ IdleInput'
         /\ TextInv => TextInv'
<1>1. InputTypes'
  BY EmptySeq DEF TypeInv, InputTypes, Cleared
<1>2. IdleInput'
  BY DEF TypeInv, IdleInput, Cleared
<1>3. ASSUME TextInv PROVE TextInv'
  <2>1. \A c \in Clients : told'[c] = <<>> \/ told'[c] = told[c]
    BY DEF Cleared
  <2>2. \A c \in Clients : Len(told'[c]) <= MaxTold
    <3> SUFFICES ASSUME NEW c \in Clients PROVE Len(told'[c]) <= MaxTold
      OBVIOUS
    <3>1. CASE told'[c] = <<>>
      BY <3>1, EmptyText, IpcAssumption
    <3>2. CASE told'[c] = told[c]
      BY <3>2, <1>3 DEF TextInv
    <3> QED
      BY <2>1, <3>1, <3>2
  <2>3. ASSUME NEW c \in clients'
        PROVE  eaten'[c] \o rbuf'[c] \o inq'[c] = told'[c]
    <3>1. c \in clients /\ c \in Clients
      BY DEF TypeInv, OutInv, Connections
    <3>2. eaten'[c] = e[c] /\ rbuf'[c] = r[c] /\ inq'[c] = inq[c] /\ told'[c] = told[c]
      BY <3>1 DEF Cleared
    <3>3. eaten[c] \o rbuf[c] \o inq[c] = told[c]
      BY <1>3, <3>1 DEF TextInv, CommandsComplete
    <3> QED
      BY <3>1, <3>2, <3>3
  <2> QED
    BY <2>2, <2>3 DEF TextInv, CommandsComplete
<1> QED
  BY <1>1, <1>2, <1>3

(* A byte is on its way.                                                   *)
LEMMA SendByteInput ==
  ASSUME TypeInv, NEW c \in Clients, NEW b \in Byte, Send(c, b)
  PROVE  /\ InputTypes' /\ IdleInput'
         /\ TextInv => TextInv'
<1>1. /\ c \in clients /\ Len(told[c]) < MaxTold
      /\ inq' = [inq EXCEPT ![c] = Append(@, b)]
      /\ told' = [told EXCEPT ![c] = Append(@, b)]
      /\ clients' = clients /\ rbuf' = rbuf /\ eaten' = eaten
  BY DEF Send
<1>2. /\ inq[c] \in Seq(Byte) /\ told[c] \in Seq(Byte)
      /\ rbuf[c] \in Seq(Byte) /\ eaten[c] \in Seq(Byte)
  BY DEF TypeInv, InputTypes
<1>3. /\ Append(inq[c], b) \in Seq(Byte) /\ Append(told[c], b) \in Seq(Byte)
      /\ Len(Append(told[c], b)) = Len(told[c]) + 1
  BY <1>2, AppendProperties
<1>4. InputTypes' /\ IdleInput'
  BY <1>1, <1>3 DEF TypeInv, InputTypes, IdleInput
<1>5. ASSUME TextInv PROVE TextInv'
  <2>1. \A d \in Clients : Len(told'[d]) <= MaxTold
    <3>1. Len(told[c]) \in Nat /\ MaxTold \in Nat
      BY <1>2, LenProperties, IpcAssumption
    <3> QED
      BY <1>1, <1>3, <1>5, <3>1 DEF TextInv, TypeInv, InputTypes
  <2>2. eaten'[c] \o rbuf'[c] \o inq'[c] = told'[c]
    <3> DEFINE h == eaten[c] \o rbuf[c]
               i == inq[c]
               t == told[c]
               one == <<b>>
    <3>1. h \in Seq(Byte) /\ i \in Seq(Byte) /\ t \in Seq(Byte) /\ one \in Seq(Byte)
      BY <1>2, ConcatProperties
    <3>2. h \o i = t
      BY <1>1, <1>5 DEF TextInv, CommandsComplete
    <3>3. Append(i, b) = i \o one /\ Append(t, b) = t \o one
      BY <3>1, AppendIsConcat
    <3> HIDE DEF h, i, t, one
    <3>4. (h \o i) \o one = h \o (i \o one)
      BY <3>1, TextAssociative
    <3>5. h \o Append(i, b) = Append(t, b)
      BY <3>2, <3>3, <3>4, Zenon
    <3>6. inq'[c] = Append(i, b) /\ told'[c] = Append(t, b)
      BY <1>1 DEF TypeInv, InputTypes, i, t
    <3>7. eaten'[c] \o rbuf'[c] = h
      BY <1>1 DEF h
    <3> QED
      BY <3>5, <3>6, <3>7, Zenon
  <2>3. ASSUME NEW d \in clients, d # c
        PROVE  eaten'[d] \o rbuf'[d] \o inq'[d] = told'[d]
    <3>1. /\ eaten'[d] = eaten[d] /\ rbuf'[d] = rbuf[d]
          /\ inq'[d] = inq[d] /\ told'[d] = told[d]
      BY <1>1, <2>3 DEF TypeInv, InputTypes, OutInv, Connections
    <3> QED
      BY <3>1, <1>5 DEF TextInv, CommandsComplete
  <2> QED
    BY <1>1, <2>1, <2>2, <2>3 DEF TextInv, CommandsComplete
<1> QED
  BY <1>4, <1>5

(* What has arrived is appended to the read buffer.  No more is there than *)
(* the client has sent, so the length does not wrap.                       *)
LEMMA ReadableInput ==
  ASSUME TypeInv, NEW c \in Clients, ipc_client_handle_readable(c)
  PROVE  /\ InputTypes' /\ IdleInput'
         /\ TextInv /\ MaxTold < LenMod => TextInv'
<1> DEFINE all == rbuf[c] \o inq[c]
<1>1. /\ c \in clients
      /\ rbuf' = [rbuf EXCEPT ![c] = Received(all)]
      /\ inq' = [inq EXCEPT ![c] = <<>>]
      /\ clients' = clients /\ eaten' = eaten /\ told' = told
  BY DEF ipc_client_handle_readable
<1>2. /\ inq[c] \in Seq(Byte) /\ told[c] \in Seq(Byte)
      /\ rbuf[c] \in Seq(Byte) /\ eaten[c] \in Seq(Byte)
  BY DEF TypeInv, InputTypes
<1>3. all \in Seq(Byte)
  BY <1>2, ConcatProperties
<1>3a. eaten[c] \o rbuf[c] \o inq[c] = eaten[c] \o all
  BY <1>2, TextAssociative
<1> HIDE DEF all
<1>4. Received(all) \in Seq(Byte) /\ (Len(all) < LenMod => Received(all) = all)
  BY <1>3, ReceivedText
<1>5. InputTypes' /\ IdleInput'
  BY <1>1, <1>4, EmptyText DEF TypeInv, InputTypes, IdleInput
<1>6. ASSUME TextInv, MaxTold < LenMod PROVE TextInv'
  <2>1. told[c] = eaten[c] \o all
    BY <1>1, <1>3a, <1>6 DEF TextInv, CommandsComplete
  <2>2. Len(all) < LenMod
    <3>1. Len(told[c]) = Len(eaten[c]) + Len(all)
      BY <2>1, <1>2, <1>3, ConcatProperties
    <3>2. Len(told[c]) <= MaxTold
      BY <1>6 DEF TextInv
    <3>3. Len(told[c]) \in Nat /\ Len(eaten[c]) \in Nat /\ Len(all) \in Nat
      BY <1>2, <1>3, LenProperties
    <3> QED
      BY <1>6, <3>1, <3>2, <3>3, IpcAssumption
  <2>3. Received(all) \o <<>> = all
    BY <2>2, <1>3, <1>4, ConcatEmptySeq
  <2>4. eaten'[c] \o rbuf'[c] \o inq'[c] = told'[c]
    <3>1. /\ eaten'[c] = eaten[c] /\ rbuf'[c] = all /\ inq'[c] = <<>>
          /\ told'[c] = told[c]
      BY <1>1, <1>4, <2>2 DEF TypeInv, InputTypes
    <3>2. eaten[c] \o all \o <<>> = eaten[c] \o all
      BY <1>2, <1>3, ConcatProperties, ConcatEmptySeq
    <3> QED
      BY <2>1, <3>1, <3>2, Zenon
  <2>5. ASSUME NEW d \in clients, d # c
        PROVE  eaten'[d] \o rbuf'[d] \o inq'[d] = told'[d]
    <3>1. /\ eaten'[d] = eaten[d] /\ rbuf'[d] = rbuf[d]
          /\ inq'[d] = inq[d] /\ told'[d] = told[d]
      BY <1>1, <2>5 DEF TypeInv, InputTypes, OutInv, Connections
    <3> QED
      BY <3>1, <1>6 DEF TextInv, CommandsComplete
  <2> QED
    BY <1>1, <1>6, <2>4, <2>5 DEF TextInv, CommandsComplete
<1> QED
  BY <1>5, <1>6

(* A line is taken out of the read buffer; the event it may send drops     *)
(* clients, perhaps the one whose line it is.                              *)
LEMMA RunLineInput ==
  ASSUME TypeInv, RunLine
  PROVE  /\ InputTypes' /\ IdleInput' /\ Running'
         /\ TextInv => TextInv'
<1> DEFINE n == NewLineAt(rbuf[busy])
<1>1. /\ busy \in clients /\ busy \in Clients /\ ~freed /\ busy' = busy
      /\ rbuf[busy] \in Seq(Byte) /\ eaten[busy] \in Seq(Byte)
  BY DEF RunLine, TypeInv, Running, InputTypes, OutInv, Connections
<1>2. PICK r, e :
        /\ r = [rbuf EXCEPT ![busy] = AfterLine(@, n)]
        /\ e = [eaten EXCEPT ![busy] = @ \o SubSeq(rbuf[busy], 1, n)]
  OBVIOUS
<1>3. \/ /\ ipc_send_event
         /\ rbuf' = Cleared(r, clients \ clients') /\ eaten' = Cleared(e, clients \ clients')
      \/ /\ rbuf' = r /\ eaten' = e
         /\ UNCHANGED <<clients, inq, told, freed, up>>
  BY <1>2 DEF RunLine
<1>4. n \in 0 .. Len(rbuf[busy])
  BY <1>1, LineWithin
<1>5. /\ SubSeq(rbuf[busy], 1, n) \in Seq(Byte) /\ AfterLine(rbuf[busy], n) \in Seq(Byte)
      /\ SubSeq(rbuf[busy], 1, n) \o AfterLine(rbuf[busy], n) = rbuf[busy]
  BY <1>1, <1>4, LineAndRest
<1>6. e[busy] \o r[busy] = eaten[busy] \o rbuf[busy]
  <2> DEFINE g == eaten[busy]
             l == SubSeq(rbuf[busy], 1, n)
             t == AfterLine(rbuf[busy], n)
  <2>1. g \in Seq(Byte) /\ l \in Seq(Byte) /\ t \in Seq(Byte) /\ l \o t = rbuf[busy]
    BY <1>1, <1>5
  <2>2. e[busy] = g \o l /\ r[busy] = t
    BY <1>1, <1>2 DEF TypeInv, InputTypes
  <2> HIDE DEF g, l, t
  <2>3. (g \o l) \o t = g \o (l \o t)
    BY <2>1, TextAssociative
  <2> QED
    BY <2>1, <2>2, <2>3, Zenon DEF g
<1>7. r \in [Clients -> Seq(Byte)] /\ e \in [Clients -> Seq(Byte)]
  <2>1. eaten[busy] \o SubSeq(rbuf[busy], 1, n) \in Seq(Byte)
    BY <1>1, <1>5, ConcatProperties
  <2> QED
    BY <1>2, <1>5, <2>1 DEF TypeInv, InputTypes
<1> HIDE DEF n
<1>8. \A c \in Clients \ clients : r[c] = <<>> /\ e[c] = <<>>
  BY <1>1, <1>2 DEF TypeInv, IdleInput, InputTypes
<1>9. \A c \in clients : e[c] \o r[c] = eaten[c] \o rbuf[c]
  BY <1>1, <1>2, <1>6 DEF TypeInv, InputTypes, OutInv, Connections
<1>10. CASE ipc_send_event /\ rbuf' = Cleared(r, clients \ clients')
            /\ eaten' = Cleared(e, clients \ clients')
  <2>1. /\ clients' \subseteq clients
        /\ inq' = Cleared(inq, clients \ clients')
        /\ told' = Cleared(told, clients \ clients')
        /\ freed' \in BOOLEAN /\ up' = up
        /\ ~freed' => busy \in clients'
    BY <1>1, <1>10, SendInput
  <2>2. Running'
    BY <1>1, <2>1 DEF TypeInv, Running
  <2>3. InputTypes' /\ IdleInput' /\ (TextInv => TextInv')
    BY <1>7, <1>8, <1>9, <1>10, <2>1, ClearedInput
  <2> QED
    BY <2>2, <2>3
<1>11. CASE rbuf' = r /\ eaten' = e /\ UNCHANGED <<clients, inq, told, freed, up>>
  <2>1. InputTypes' /\ IdleInput' /\ Running'
    BY <1>1, <1>7, <1>8, <1>11 DEF TypeInv, InputTypes, IdleInput, Running
  <2>2. ASSUME TextInv PROVE TextInv'
    BY <1>9, <1>11, <2>2 DEF TextInv, CommandsComplete
  <2> QED
    BY <2>1, <2>2
<1> QED
  BY <1>3, <1>10, <1>11

(* An event between two handlers leaves the text of the kept clients.      *)
LEMMA OtherEventInput ==
  ASSUME TypeInv, OtherEvent
  PROVE  /\ InputTypes' /\ IdleInput' /\ Running'
         /\ TextInv => TextInv'
<1>1. /\ ipc_send_event /\ busy = NULL /\ busy' = busy
      /\ rbuf' = Cleared(rbuf, clients \ clients')
      /\ eaten' = Cleared(eaten, clients \ clients')
  BY DEF OtherEvent
<1>2. /\ clients' \subseteq clients
      /\ inq' = Cleared(inq, clients \ clients')
      /\ told' = Cleared(told, clients \ clients')
      /\ freed' \in BOOLEAN /\ up' = up
  BY <1>1, SendInput
<1>3. Running'
  BY <1>1, <1>2 DEF TypeInv, Running
<1>4. PICK r, e : r = rbuf /\ e = eaten
  OBVIOUS
<1>5. /\ r \in [Clients -> Seq(Byte)] /\ e \in [Clients -> Seq(Byte)]
      /\ \A c \in Clients \ clients : r[c] = <<>> /\ e[c] = <<>>
      /\ \A c \in clients : e[c] \o r[c] = eaten[c] \o rbuf[c]
  BY <1>4 DEF TypeInv, InputTypes, IdleInput
<1>6. rbuf' = Cleared(r, clients \ clients') /\ eaten' = Cleared(e, clients \ clients')
  BY <1>1, <1>4
<1> QED
  BY <1>2, <1>3, <1>5, <1>6, ClearedInput

(* Steps that leave the text alone.                                        *)
LEMMA SameInput ==
  ASSUME TypeInv, UNCHANGED input,
         clients \subseteq clients'
  PROVE  /\ InputTypes' /\ IdleInput'
         /\ TextInv => (clients' = clients => TextInv')
BY DEF TypeInv, input, InputTypes, IdleInput, TextInv, CommandsComplete

(* A new client has sent nothing yet.                                      *)
LEMMA ConnectInput ==
  ASSUME TypeInv, NEW c \in Clients, ipc_handle_connection(c)
  PROVE  /\ InputTypes' /\ IdleInput' /\ Running'
         /\ TextInv => TextInv'
<1>1. /\ c \in Clients \ clients /\ clients' = clients \cup {c} /\ busy = NULL
      /\ UNCHANGED input /\ UNCHANGED <<busy, freed, up>>
  BY DEF ipc_handle_connection
<1>2. InputTypes' /\ IdleInput'
  BY <1>1, SameInput
<1>3. Running'
  BY <1>1 DEF TypeInv, Running
<1>4. ASSUME TextInv PROVE TextInv'
  <2>1. inq[c] = <<>> /\ rbuf[c] = <<>> /\ eaten[c] = <<>> /\ told[c] = <<>>
    BY <1>1 DEF TypeInv, IdleInput
  <2>2. eaten[c] \o rbuf[c] \o inq[c] = told[c]
    BY <2>1
  <2> QED
    BY <1>1, <1>4, <2>2 DEF TextInv, CommandsComplete, input
<1> QED
  BY <1>2, <1>3, <1>4

-----------------------------------------------------------------------------
(* One step for each action: the types are kept, and the text is as long   *)
(* as a connection carries less than LenMod bytes.                         *)
LEMMA NextInput ==
  ASSUME TypeInv, [Next]_vars
  PROVE  /\ InputTypes' /\ IdleInput' /\ Running'
         /\ TextInv /\ MaxTold < LenMod => TextInv'
<1> DEFINE Kept == /\ InputTypes' /\ IdleInput' /\ Running'
                   /\ TextInv /\ MaxTold < LenMod => TextInv'
<1> SUFFICES Kept
  OBVIOUS
<1>0. ASSUME UNCHANGED <<input, clients, busy, freed, up>> PROVE Kept
  BY <1>0, SameInput DEF TypeInv, Running
<1>1. CASE UNCHANGED vars
  BY <1>0, <1>1 DEF vars, input
<1>2. ASSUME NEW c \in Clients, Receive(c) \/ Close(c) PROVE Kept
  BY <1>0, <1>2 DEF Receive, Close
<1>3. ASSUME NEW c \in Clients, NEW b \in Byte, Send(c, b) PROVE Kept
  <2>1. InputTypes' /\ IdleInput' /\ (TextInv => TextInv')
    BY <1>3, SendByteInput
  <2>2. Running'
    BY <1>3 DEF Send, TypeInv, Running
  <2> QED
    BY <2>1, <2>2
<1>4. ASSUME NEW c \in Clients, ipc_handle_connection(c) PROVE Kept
  BY <1>4, ConnectInput
<1>5. ASSUME NEW S, ipc_client_disconnect(S), busy = NULL,
             UNCHANGED <<busy, freed>>, up' \in BOOLEAN
      PROVE  Kept
  <2>1. InputTypes' /\ IdleInput' /\ (TextInv => TextInv')
    BY <1>5, DisconnectInput
  <2>2. Running'
    BY <1>5 DEF TypeInv, Running
  <2> QED
    BY <2>1, <2>2
<1>6. ASSUME NEW c \in Clients, HangUp(c) \/ SocketError(c) PROVE Kept
  <2>1. ipc_client_disconnect({c}) /\ busy = NULL /\ UNCHANGED <<busy, freed>>
    BY <1>6 DEF HangUp, SocketError
  <2>2. up' \in BOOLEAN
    BY <1>6 DEF HangUp, SocketError, TypeInv, Running
  <2> QED
    BY <2>1, <2>2, <1>5
<1>7. CASE handle_display_destroy
  <2>1. /\ ipc_client_disconnect(clients) /\ busy = NULL /\ UNCHANGED <<busy, freed>>
        /\ up' \in BOOLEAN
    BY <1>7 DEF handle_display_destroy
  <2> QED
    BY <2>1, <1>5
<1>8. ASSUME NEW c \in Clients, ipc_client_handle_readable(c) PROVE Kept
  <2>1. InputTypes' /\ IdleInput' /\ (TextInv /\ MaxTold < LenMod => TextInv')
    BY <1>8, ReadableInput
  <2>2. Running'
    BY <1>8 DEF ipc_client_handle_readable, TypeInv, Running
  <2> QED
    BY <2>1, <2>2
<1>9. ASSUME NEW c \in Clients, NEW k, ipc_client_handle_writable(c, k) PROVE Kept
  BY <1>0, <1>9 DEF ipc_client_handle_writable
<1>10. CASE RunLine
  BY <1>10, RunLineInput
<1>11. CASE EndOfCommands
  <2>1. UNCHANGED <<input, clients, freed, up>> /\ busy' = NULL
    BY <1>11 DEF EndOfCommands
  <2>2. Running'
    BY <2>1 DEF TypeInv, Running
  <2> QED
    BY <2>1, <2>2, SameInput
<1>12. CASE OtherEvent
  BY <1>12, OtherEventInput
<1> HIDE DEF Kept
<1>13. ASSUME NEW c \in Clients,
              \/ Receive(c) \/ Close(c) \/ \E b \in Byte : Send(c, b)
              \/ ipc_handle_connection(c) \/ HangUp(c) \/ ipc_client_handle_readable(c)
              \/ SocketError(c)
              \/ \E k \in 0 .. Len(wbuf[c]) : ipc_client_handle_writable(c, k)
       PROVE  Kept
  BY <1>2, <1>3, <1>4, <1>6, <1>8, <1>9, <1>13, Zenon
<1> QED
  BY <1>1, <1>7, <1>10, <1>11, <1>12, <1>13 DEF Next

(* The types of the server's variables, for any number of clients; in      *)
(* particular no event source of a freed client is left in the event loop, *)
(* as wsrc is within clients.                                              *)
THEOREM ServerTypes == Spec => []TypeOK
<1>1. Init => TypeInv
  BY InitOut, InitInput DEF TypeInv
<1>2. TypeInv /\ [Next]_vars => TypeInv'
  BY NextOut, NextInput DEF TypeInv
<1>3. TypeInv => TypeOK
  BY DEF TypeInv, OutInv, Connections, Running, TypeOK
<1> QED
  BY <1>1, <1>2, <1>3, PTL DEF Spec

(* ipc_client_handle_command runs the text of a connection whole and in    *)
(* order, however it is cut into packets, as long as the connection        *)
(* carries less text than the uint16_t read_buf_len can count.             *)
THEOREM CommandsWhole ==
  ASSUME MaxTold < LenMod
  PROVE  Spec => []CommandsComplete
<1> DEFINE I == TypeInv /\ TextInv
<1>1. Init => I
  BY InitOut, InitInput DEF TypeInv
<1>2. I /\ [Next]_vars => I'
  BY NextOut, NextInput DEF TypeInv
<1>3. I => CommandsComplete
  BY DEF TextInv
<1> QED
  BY <1>1, <1>2, <1>3, PTL DEF Spec
=============================================================================
