----------------------------- MODULE IpcServer -----------------------------
(***************************************************************************)
(* The IPC socket (ipc_server.c): clients connect, send command lines and  *)
(* receive events.                                                         *)
(*                                                                         *)
(* The event loop is single-threaded.  One call of                         *)
(* ipc_client_handle_readable runs all complete lines of a client; as each *)
(* line may send events, and so disconnect clients, the loop over lines is *)
(* modelled line by line, with `busy` naming the client whose handler is   *)
(* on the stack and excluding every other handler meanwhile.               *)
(*                                                                         *)
(* Data: an input byte is "c" (part of a line) or "nl"; a line sends at    *)
(* most one event, a comment or a rejected command none; an event is EvLen *)
(* bytes on the wire, header and final NUL included, each standing for the *)
(* event's number.                                                         *)
(*                                                                         *)
(* A command that makes the server drop the very client that sent it frees *)
(* the buffer its handler still loops over: `freed` marks that point, and  *)
(* the server takes no further step in the model.                          *)
(***************************************************************************)
EXTENDS Integers, Sequences, FiniteSets

CONSTANTS
  Clients,    \* client programs
  EvLen,      \* IPC_HEADER_SIZE + payload_length + 1
  Sizes,      \* the values write_buffer_size takes: 128, 256, 512, ...
  FirstSize,  \* 128
  MaxBuf,     \* 4e6
  LenMod,     \* 2^16, as read_buf_len is a uint16_t
  SockCap,    \* bytes the kernel holds for a client that does not read
  MaxEvents,  \* bound on the number of events
  MaxTold,    \* bound on the bytes a client sends on one connection
  NULL

ASSUME IpcAssumption ==
  /\ EvLen \in Nat \ {0}
  /\ Sizes \subseteq Nat /\ FirstSize \in Sizes /\ 0 < FirstSize /\ FirstSize <= MaxBuf
  /\ \A n \in 0 .. MaxBuf + EvLen : \E s \in Sizes :
       n < s /\ \A r \in Sizes : n < r => s <= r
  /\ MaxBuf \in Nat /\ LenMod \in Nat \ {0} /\ SockCap \in Nat \ {0}
  /\ MaxEvents \in Nat /\ MaxTold \in Nat
  /\ NULL \notin Clients

VARIABLES
  clients,   \* ipc->client_list
  hang,      \* clients that have closed their end
  inq,       \* bytes a client has sent that the server has not received
  rbuf,      \* read_buffer up to read_buf_len
  eaten,     \* bytes taken out of rbuf as complete lines (history)
  told,      \* bytes the client has sent on this connection (history)
  wbuf,      \* write_buffer up to write_buffer_len
  wsize,     \* write_buffer_size
  wsrc,      \* clients with a writable_event_source
  sock,      \* bytes in the kernel, on their way to the client
  got,       \* bytes the client has read (history)
  log,       \* bytes of all events since the client connected (history)
  events,    \* number of events sent so far
  busy,      \* client whose ipc_client_handle_command is running, or NULL
  freed,     \* the busy client was freed by one of its own commands
  up         \* the socket has not been closed by handle_display_destroy

input == <<inq, rbuf, eaten, told>>
output == <<wbuf, wsize, wsrc, sock, got, log>>
vars == <<clients, hang, input, output, events, busy, freed, up>>

Byte == {"c", "nl"}

(* The bytes of event number e, as ipc_send_event_client lays them out.    *)
Bytes(e) == [i \in 1 .. EvLen |-> e]

(* while(need >= size) size *= 2                                           *)
GrowTooLate(size, need) ==
  IF need <= size THEN size
  ELSE CHOOSE s \in Sizes : need <= s /\ \A r \in Sizes : need <= r => s <= r

Grow(size, need) ==
  IF need < size THEN size
  ELSE CHOOSE s \in Sizes : need < s /\ \A r \in Sizes : need < r => s <= r

(* What is left of a write buffer when write() took k bytes of it: the     *)
(* memmove to the front, and the new length.                               *)
NotMoved(buf, k) == SubSeq(buf, 1, Len(buf) - k)

Written(buf, k) == SubSeq(buf, k + 1, Len(buf))

(* The text in the read buffer: its length is reduced modulo 2^16, and     *)
(* ipc_client_handle_command ends the text there with a NUL.               *)
EndsEarly(text) == SubSeq(text, 1, Len(text) - 1)

Received(text) == SubSeq(text, 1, Len(text) % LenMod)

(* What is left of a read buffer after a line that ends at n.              *)
TailLost(text, n) == <<>>

AfterLine(text, n) == SubSeq(text, n + 1, Len(text))

-----------------------------------------------------------------------------
Init ==
  /\ clients = {} /\ hang = {} /\ wsrc = {} /\ events = 0
  /\ busy = NULL /\ freed = FALSE /\ up = TRUE
  /\ inq = [c \in Clients |-> <<>>] /\ rbuf = [c \in Clients |-> <<>>]
  /\ eaten = [c \in Clients |-> <<>>] /\ told = [c \in Clients |-> <<>>]
  /\ wbuf = [c \in Clients |-> <<>>] /\ wsize = [c \in Clients |-> FirstSize]
  /\ sock = [c \in Clients |-> <<>>] /\ got = [c \in Clients |-> <<>>]
  /\ log = [c \in Clients |-> <<>>]

Cleared(f, S) == [c \in Clients |-> IF c \in S THEN <<>> ELSE f[c]]

(* The writable sources left when the clients of S go, and after the loop  *)
(* of ipc_send_event has given a source to every client without one.       *)
SourceStays(S) == wsrc

Unwatched(S) == wsrc \ S

NotRearmed == wsrc

Rearmed == wsrc \cup clients

(* Each client of S is freed, its file descriptor and its sources go.      *)
ipc_client_disconnect(S) ==
  /\ clients' = clients \ S /\ hang' = hang \ S /\ wsrc' = Unwatched(S)
  /\ inq' = Cleared(inq, S) /\ rbuf' = Cleared(rbuf, S)
  /\ eaten' = Cleared(eaten, S) /\ told' = Cleared(told, S)
  /\ wbuf' = Cleared(wbuf, S) /\ sock' = Cleared(sock, S)
  /\ got' = Cleared(got, S) /\ log' = Cleared(log, S)
  /\ wsize' = [c \in Clients |-> IF c \in S THEN FirstSize ELSE wsize[c]]

(* ipc_send_event and, for each client, ipc_send_event_client.             *)
ipc_send_event ==
  LET size(c) == Grow(wsize[c], Len(wbuf[c]) + EvLen)
      dropped == {c \in clients : size(c) > MaxBuf}
      kept == clients \ dropped
  IN  /\ clients' = kept /\ hang' = hang \ dropped
      /\ wsrc' = Rearmed \ dropped
      /\ wsize' = [c \in Clients |-> IF c \in kept THEN size(c)
                                     ELSE IF c \in dropped THEN FirstSize ELSE wsize[c]]
      /\ wbuf' = [c \in Clients |-> IF c \in kept THEN wbuf[c] \o Bytes(events + 1)
                                    ELSE <<>>]
      /\ log' = [c \in Clients |-> IF c \in kept THEN log[c] \o Bytes(events + 1)
                                   ELSE <<>>]
      /\ sock' = Cleared(sock, dropped) /\ got' = Cleared(got, dropped)
      /\ inq' = Cleared(inq, dropped) /\ told' = Cleared(told, dropped)
      /\ events < MaxEvents /\ events' = events + 1
      /\ freed' = (freed \/ busy \in dropped) /\ UNCHANGED up

-----------------------------------------------------------------------------
(* The client programs.                                                    *)

Send(c, b) ==
  /\ c \in clients \ hang /\ Len(told[c]) < MaxTold
  /\ inq' = [inq EXCEPT ![c] = Append(@, b)]
  /\ told' = [told EXCEPT ![c] = Append(@, b)]
  /\ UNCHANGED <<clients, hang, rbuf, eaten, output, events, busy, freed, up>>

Receive(c) ==
  /\ c \in clients \ hang /\ sock[c] # <<>>
  /\ got' = [got EXCEPT ![c] = @ \o sock[c]]
  /\ sock' = [sock EXCEPT ![c] = <<>>]
  /\ UNCHANGED <<clients, hang, input, wbuf, wsize, wsrc, log, events, busy, freed, up>>

Close(c) ==
  /\ c \in clients \ hang
  /\ hang' = hang \cup {c}
  /\ UNCHANGED <<clients, input, output, events, busy, freed, up>>

-----------------------------------------------------------------------------
(* The server's handlers.                                                  *)

ipc_handle_connection(c) ==
  /\ busy = NULL /\ up /\ c \in Clients \ clients
  /\ clients' = clients \cup {c}
  /\ wsrc' = wsrc \cup {c}
  /\ UNCHANGED <<hang, input, wbuf, wsize, sock, got, log, events, busy, freed, up>>

(* On hang-up the client goes at once, bytes in inq or not.                *)
HangUp(c) ==
  /\ busy = NULL /\ c \in clients \cap hang
  /\ ipc_client_disconnect({c})
  /\ UNCHANGED <<events, busy, freed, up>>

(* WL_EVENT_ERROR, or an ioctl, recv, write or allocation that fails.      *)
SocketError(c) ==
  /\ busy = NULL /\ c \in clients
  /\ ipc_client_disconnect({c})
  /\ UNCHANGED <<events, busy, freed, up>>

handle_display_destroy ==
  /\ busy = NULL /\ up
  /\ up' = FALSE
  /\ ipc_client_disconnect(clients)
  /\ UNCHANGED <<events, busy, freed>>

(* FIONREAD bytes are received at once.                                    *)
ipc_client_handle_readable(c) ==
  /\ busy = NULL /\ c \in clients \ hang /\ inq[c] # <<>>
  /\ rbuf' = [rbuf EXCEPT ![c] = Received(@ \o inq[c])]
  /\ inq' = [inq EXCEPT ![c] = <<>>]
  /\ busy' = c
  /\ UNCHANGED <<clients, hang, eaten, told, output, events, freed, up>>

NewLineAt(s) ==
  LET nl == {i \in 1 .. Len(s) : s[i] = "nl"}
  IN  IF nl = {} THEN 0 ELSE CHOOSE i \in nl : \A j \in nl : i <= j

(***************************************************************************)
(* One round of the loop in ipc_client_handle_command.  A command sends an *)
(* event or, when parse_rc_line rejects it or it has no effect, none;      *)
(* comments and empty lines send none.                                     *)
(***************************************************************************)
RunLine ==
  LET c == busy
      n == NewLineAt(rbuf[c])
      rest == [rbuf EXCEPT ![c] = AfterLine(@, n)]
      taken == [eaten EXCEPT ![c] = @ \o SubSeq(rbuf[c], 1, n)]
  IN  /\ busy # NULL /\ ~freed /\ n > 0
      /\ \/ /\ n > 1
            /\ ipc_send_event
            /\ rbuf' = Cleared(rest, clients \ clients')
            /\ eaten' = Cleared(taken, clients \ clients')
         \/ /\ rbuf' = rest /\ eaten' = taken
            /\ UNCHANGED <<clients, hang, inq, told, output, events, freed, up>>
      /\ UNCHANGED busy

EndOfCommands ==
  /\ busy # NULL /\ ~freed /\ NewLineAt(rbuf[busy]) = 0
  /\ busy' = NULL
  /\ UNCHANGED <<clients, hang, input, output, events, freed, up>>

(* An event that no IPC command caused.                                    *)
OtherEvent ==
  /\ busy = NULL /\ clients # {}
  /\ ipc_send_event
  /\ rbuf' = Cleared(rbuf, clients \ clients')
  /\ eaten' = Cleared(eaten, clients \ clients')
  /\ UNCHANGED busy

(* k bytes fit in the kernel's buffer; with none free write() is EAGAIN.   *)
ipc_client_handle_writable(c, k) ==
  /\ busy = NULL /\ c \in (clients \cap wsrc) \ hang
  /\ k \in 0 .. Len(wbuf[c]) /\ Len(sock[c]) + k <= SockCap
  /\ k = 0 => wbuf[c] = <<>>
  /\ sock' = [sock EXCEPT ![c] = @ \o SubSeq(wbuf[c], 1, k)]
  /\ wbuf' = [wbuf EXCEPT ![c] = Written(@, k)]
  /\ wsrc' = IF k = Len(wbuf[c]) THEN wsrc \ {c} ELSE wsrc
  /\ UNCHANGED <<clients, hang, input, wsize, got, log, events, busy, freed, up>>

Next ==
  \/ \E c \in Clients :
       \/ Receive(c) \/ Close(c) \/ \E b \in Byte : Send(c, b)
       \/ ipc_handle_connection(c) \/ HangUp(c) \/ ipc_client_handle_readable(c)
       \/ SocketError(c)
       \/ \E k \in 0 .. Len(wbuf[c]) : ipc_client_handle_writable(c, k)
  \/ RunLine \/ EndOfCommands \/ OtherEvent \/ handle_display_destroy

(***************************************************************************)
(* The event loop serves every ready file descriptor and a handler ends;   *)
(* clients that listen go on reading.                                      *)
(***************************************************************************)
Fairness ==
  /\ WF_vars(RunLine) /\ WF_vars(EndOfCommands)
  /\ \A c \in Clients :
       /\ WF_vars(HangUp(c)) /\ WF_vars(ipc_client_handle_readable(c))
       /\ WF_vars(\E k \in 0 .. Len(wbuf[c]) : ipc_client_handle_writable(c, k))
       /\ WF_vars(Receive(c))

Spec == Init /\ [][Next]_vars

FairSpec == Spec /\ Fairness

-----------------------------------------------------------------------------
(* Properties.                                                             *)

InputTypes ==
  /\ inq \in [Clients -> Seq(Byte)] /\ rbuf \in [Clients -> Seq(Byte)]
  /\ eaten \in [Clients -> Seq(Byte)] /\ told \in [Clients -> Seq(Byte)]

OutputTypes ==
  /\ wbuf \in [Clients -> Seq(Nat)] /\ sock \in [Clients -> Seq(Nat)]
  /\ got \in [Clients -> Seq(Nat)] /\ log \in [Clients -> Seq(Nat)]
  /\ wsize \in [Clients -> Sizes]
  /\ events \in Nat

(* Every variable stays in its type; in particular the event loop watches  *)
(* no descriptor of a client that ipc_client_disconnect has freed.         *)
TypeOK ==
  /\ clients \subseteq Clients /\ hang \subseteq clients /\ wsrc \subseteq clients
  /\ InputTypes /\ OutputTypes
  /\ busy \in Clients \cup {NULL} /\ freed \in BOOLEAN /\ up \in BOOLEAN

(***************************************************************************)
(* However the partial writes of ipc_client_handle_writable, the memmove   *)
(* of what is left and the appends of ipc_send_event_client interleave,    *)
(* what a client has read, what is in the kernel and what is still in the  *)
(* write buffer are together the events sent since it connected, in order, *)
(* none lost, doubled or torn apart.                                       *)
(***************************************************************************)
StreamIntact == \A c \in clients : got[c] \o sock[c] \o wbuf[c] = log[c]

(***************************************************************************)
(* ipc_client_handle_writable removes the writable event source when the   *)
(* write buffer is empty, ipc_send_event installs it again: bytes never    *)
(* wait in a write buffer that no event source will empty.                 *)
(***************************************************************************)
WriterArmed == \A c \in clients : wbuf[c] # <<>> => c \in wsrc

(***************************************************************************)
(* The memcpys of ipc_send_event_client stay inside the write buffer, and  *)
(* the buffer of a connected client never exceeds the limit of 4e6 bytes,  *)
(* however slowly the client reads.                                        *)
(***************************************************************************)
BufferFits == \A c \in clients : Len(wbuf[c]) < wsize[c] /\ wsize[c] <= MaxBuf

(***************************************************************************)
(* However a client's text is cut into packets, and whatever the lines     *)
(* run so far did, ipc_client_handle_command consumes it whole and in      *)
(* order: what was run, what is left in the read buffer and what is still  *)
(* on the way are together what the client sent.                           *)
(***************************************************************************)
CommandsComplete == \A c \in clients : eaten[c] \o rbuf[c] \o inq[c] = told[c]

Stream ==
  INSTANCE EventStream
    WITH subscribed <- clients, queue <- [c \in Clients |-> sock[c] \o wbuf[c]]

(* The server with its buffers, sources and disconnections implements the  *)
(* event stream that cagebreak-socket(7) promises to each client.          *)
Implements == Stream!Spec

(***************************************************************************)
(* Every byte of an event is read in the end by a client that stays: the   *)
(* partial writes, EAGAIN and the removal and re-installation of the       *)
(* writable source never leave a client waiting for good.                  *)
(***************************************************************************)
EventsDelivered ==
  \A c \in Clients : \A n \in 1 .. MaxEvents * EvLen :
    (c \in clients /\ Len(log[c]) >= n)
      ~> (c \notin clients \/ Len(got[c]) >= n \/ freed)

(***************************************************************************)
(* A complete line a client has sent is run in the end, unless the client  *)
(* is disconnected first.                                                  *)
(***************************************************************************)
CommandsRun ==
  \A c \in Clients : \A n \in 1 .. MaxTold :
    (c \in clients /\ Len(told[c]) >= n /\ told[c][n] = "nl")
      ~> (c \notin clients \/ Len(eaten[c]) >= n \/ freed)
=============================================================================
