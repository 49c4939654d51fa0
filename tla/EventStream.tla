---------------------------- MODULE EventStream ----------------------------
(***************************************************************************)
(* What the IPC socket promises a program that listens on it: from the     *)
(* moment it is connected it gets the bytes of every event, in order and   *)
(* without gap or repetition, until it is disconnected.                    *)
(***************************************************************************)
EXTENDS Integers, Sequences

CONSTANTS
  Clients,   \* programs that may connect
  EvLen      \* bytes of one event on the wire

VARIABLES
  subscribed,  \* the connected clients
  events,      \* number of events sent so far
  queue,       \* bytes on their way to a client
  got          \* bytes a client has read since it connected

vars == <<subscribed, events, queue, got>>

(* The bytes of event number e.                                            *)
Bytes(e) == [i \in 1 .. EvLen |-> e]

Init ==
  /\ subscribed = {}
  /\ events = 0
  /\ queue = [c \in Clients |-> <<>>]
  /\ got = [c \in Clients |-> <<>>]

Subscribe(c) ==
  /\ c \in Clients \ subscribed
  /\ subscribed' = subscribed \cup {c}
  /\ UNCHANGED <<events, queue, got>>

(* Some clients may be dropped for not reading; the others get the event.  *)
Emit(dropped) ==
  /\ dropped \subseteq subscribed
  /\ subscribed' = subscribed \ dropped
  /\ events' = events + 1
  /\ queue' = [c \in Clients |->
                 IF c \in subscribed' THEN queue[c] \o Bytes(events + 1)
                 ELSE IF c \in dropped THEN <<>> ELSE queue[c]]
  /\ got' = [c \in Clients |-> IF c \in dropped THEN <<>> ELSE got[c]]

Deliver(c, k) ==
  /\ c \in subscribed /\ k \in 1 .. Len(queue[c])
  /\ got' = [got EXCEPT ![c] = @ \o SubSeq(queue[c], 1, k)]
  /\ queue' = [queue EXCEPT ![c] = SubSeq(@, k + 1, Len(@))]
  /\ UNCHANGED <<subscribed, events>>

Leave(gone) ==
  /\ gone \subseteq subscribed
  /\ subscribed' = subscribed \ gone
  /\ queue' = [c \in Clients |-> IF c \in gone THEN <<>> ELSE queue[c]]
  /\ got' = [c \in Clients |-> IF c \in gone THEN <<>> ELSE got[c]]
  /\ UNCHANGED events

Next ==
  \/ \E c \in Clients : Subscribe(c) \/ \E k \in 1 .. Len(queue[c]) : Deliver(c, k)
  \/ \E S \in SUBSET subscribed : Emit(S) \/ Leave(S)

Spec == Init /\ [][Next]_vars
=============================================================================
