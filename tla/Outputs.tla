------------------------------ MODULE Outputs ------------------------------
(***************************************************************************)
(* The life cycle of outputs and their messages: plugging, the `output`    *)
(* command, priorities, roles, disabling, and the timer that hides         *)
(* messages.                                                               *)
(*                                                                         *)
(* Module Desktop says what happens to tiles, views and focus when an      *)
(* output comes or goes.  This module is about the output objects          *)
(* themselves.  A monitor is known by its name, which outlives the struct  *)
(* cg_output: the stored configuration is found by name, a permanent       *)
(* output waits for its name to come back, and a struct that was disabled  *)
(* stays in a second list.                                                 *)
(*                                                                         *)
(* Abstractions: position, mode, scale and rotation are only the question  *)
(* whether a mode is to be set and whether that fails; a workspace is only *)
(* allocated or not; a list of messages is empty, shown, or holds a        *)
(* message whose scene node was never created.  The default role and the   *)
(* default status act as peripheral and enable wherever they are read, and *)
(* are stored as such.  The session is active.                             *)
(***************************************************************************)
EXTENDS Integers, WlList

CONSTANTS
  Structs,     \* addresses of struct cg_output
  Monitors,    \* names of monitors
  Views,       \* mapped views
  Prios,       \* the priorities commands give
  NULL,
  Inputs       \* classes of events a run explores

ASSUME OutputsAssumption ==
  /\ Prios \subseteq Nat
  /\ NULL \notin Structs \cup Monitors

VARIABLE server

(***************************************************************************)
(* struct cg_output, one function per field, and of struct cg_server the   *)
(* fields about outputs:                                                   *)
(*   outs       server->outputs         disabled  server->disabled_outputs *)
(*   name       NULL for a free struct  on        wlr_output->enabled      *)
(*   scene      scene_output: live, null or dangling                       *)
(*   bg         bg # NULL               ws        workspaces # NULL        *)
(*   msgs       messages: none, shown, or raw (one without a scene node)   *)
(*   home       the output on whose workspaces a view is, NULL without one *)
(*   config     server->output_config, the stored command per name         *)
(*   alarm      an alarm() is pending   timed     display_time > 0         *)
(*   messages   message_config.enabled  plugged   monitors connected       *)
(*   todo       the list main() re-inserts the outputs from                *)
(*   ub         freed, NULL or uninitialised memory was used               *)
(***************************************************************************)
Config ==
  [status : {"default", "enable", "disable"},
   prio   : Prios \cup {-1},
   pos    : BOOLEAN,
   role   : {"default", "permanent", "peripheral"}]

ServerType ==
  [outs      : Seq(Structs),
   disabled  : Seq(Structs),
   todo      : Seq(Structs),
   name      : [Structs -> Monitors \cup {NULL}],
   prio      : [Structs -> Prios \cup {-1}],
   role      : [Structs -> {"permanent", "peripheral"}],
   destroyed : [Structs -> BOOLEAN],
   scene     : [Structs -> {"live", "null", "dangling"}],
   on        : [Structs -> BOOLEAN],
   bg        : [Structs -> BOOLEAN],
   ws        : [Structs -> BOOLEAN],
   msgs      : [Structs -> {"none", "shown", "raw"}],
   curr      : Structs \cup {NULL},
   home      : [Views -> Structs \cup {NULL}],
   config    : [Monitors -> Config],
   plugged   : SUBSET Monitors,
   alarm     : BOOLEAN,
   timed     : BOOLEAN,
   messages  : BOOLEAN,
   phase     : {"backend", "config", "sorting", "running", "stopped"},
   ub        : BOOLEAN]

empty_output_config ==
  [status |-> "default", prio |-> -1, pos |-> FALSE, role |-> "default"]

Ub(s, broken) == [s EXCEPT !.ub = @ \/ broken]

-----------------------------------------------------------------------------
(* The list of outputs.                                                    *)

Listed(seq, o) == o \in ToSet(seq)

(* Before the first output of a lower priority, else at the end.           *)
IsPlace(s, o, i) ==
  /\ i \in 1 .. Len(s.outs) + 1
  /\ \A j \in 1 .. i - 1 : s.prio[s.outs[j]] >= s.prio[o]
  /\ i <= Len(s.outs) => s.prio[s.outs[i]] < s.prio[o]

InsertFirst(s, o) == [s EXCEPT !.outs = <<o>> \o @]

output_insert(s, o) ==
  [s EXCEPT !.outs = InsertAt(@, CHOOSE i \in 1 .. Len(@) + 1 : IsPlace(s, o, i), o)]

Unlink(s, o) ==
  [s EXCEPT !.outs = wl_list_remove(@, o), !.disabled = wl_list_remove(@, o)]

-----------------------------------------------------------------------------
(* Messages.                                                               *)

message_clear(s, o) ==
  [s EXCEPT !.msgs[o] = "none", !.ub = @ \/ s.msgs[o] = "raw"]

(* A message on an output without scene output keeps an uninitialised      *)
(* node, which message_clear destroys.                                     *)
message_set_output(s, o) ==
  [s EXCEPT !.msgs[o] =
     IF @ = "raw" \/ s.scene[o] # "live" THEN "raw" ELSE "shown"]

message_printf(s, o) ==
  IF s.destroyed[o] \/ ~s.messages THEN s
  ELSE [message_set_output(s, o) EXCEPT !.alarm = s.timed]

set_output(s, o) ==
  message_printf(Ub([s EXCEPT !.curr = o], ~s.ws[o]), o)

(* From the current output to its neighbour in the ring of outputs.        *)
keybinding_cycle_outputs(s, reverse) ==
  LET n == Len(s.outs)
      i == IndexIn(s.outs, s.curr)
      k == IF reverse THEN (IF i = 1 THEN n ELSE i - 1)
           ELSE (IF i = n THEN 1 ELSE i + 1)
  IN  IF Listed(s.outs, s.curr) THEN set_output(s, s.outs[k]) ELSE Ub(s, TRUE)

-----------------------------------------------------------------------------
(* Taking an output out of use.                                            *)

DestroyScene(s, o) ==
  [s EXCEPT !.ub = @ \/ s.scene[o] = "dangling",
            !.scene[o] = IF @ = "null" THEN "null" ELSE "dangling"]

StaysCurrent(s, o) == s

LeaveCurrent(s, o) ==
  IF s.curr = o /\ Len(s.outs) > 1 THEN keybinding_cycle_outputs(s, FALSE) ELSE s

(* The views go to the current output, or are destroyed with the last one. *)
Evacuate(s, o) ==
  [s EXCEPT !.ub = @ \/ ~s.ws[o],
            !.home = [v \in Views |->
              IF s.home[v] # o THEN s.home[v]
              ELSE IF s.outs = <<>> THEN NULL ELSE s.curr]]

MessagesStay(s, o) ==
  Evacuate(Unlink(LeaveCurrent(DestroyScene(s, o), o), o), o)

output_clear(s, o) ==
  Evacuate(message_clear(Unlink(LeaveCurrent(DestroyScene(s, o), o), o), o), o)

Disable(s, o) ==
  LET c == output_clear(s, o)
  IN  [c EXCEPT !.disabled = <<o>> \o @, !.on[o] = FALSE]

(* The monitor's object dies with it; a destroyed output has none.         *)
SceneKept(s, o) ==
  IF s.destroyed[o] THEN s
  ELSE [DestroyScene(s, o) EXCEPT !.destroyed[o] = TRUE, !.on[o] = FALSE]

LoseMonitor(s, o) ==
  IF s.destroyed[o] THEN s
  ELSE [DestroyScene(s, o) EXCEPT !.scene[o] = "null", !.destroyed[o] = TRUE,
                                  !.on[o] = FALSE]

(* What calloc gives back for the address is the same again.               *)
Free(s, o) ==
  [s EXCEPT !.name[o] = NULL, !.prio[o] = -1, !.role[o] = "peripheral",
            !.destroyed[o] = FALSE, !.scene[o] = "null", !.bg[o] = FALSE,
            !.ws[o] = FALSE]

StopWithoutOutputs(s) ==
  IF s.outs = <<>> THEN [s EXCEPT !.phase = "stopped"] ELSE s

output_destroy(s, o) ==
  LET l == LoseMonitor(s, o)
  IN  StopWithoutOutputs(
        IF l.role[o] = "permanent" THEN [l EXCEPT !.scene[o] = "live"]
        ELSE Free(output_clear(l, o), o))

-----------------------------------------------------------------------------
(* Configuration.                                                          *)

merge_config(new, old) ==
  [status |-> IF new.status = "default" THEN old.status ELSE new.status,
   prio   |-> IF new.prio = -1 THEN old.prio ELSE new.prio,
   pos    |-> new.pos \/ old.pos,
   role   |-> new.role]

(* An output known to wlroots by a real monitor can refuse a mode.         *)
ModeFails(s, o, c, fails) == c.pos /\ fails /\ ~s.destroyed[o]

RoleOverwritten(s, o, c) == [s EXCEPT !.role[o] = c.role]

SetRole(s, o, c) ==
  IF c.role = "default" THEN s ELSE [s EXCEPT !.role[o] = c.role]

SetPrio(s, o, c) ==
  IF c.prio = -1 THEN s ELSE [s EXCEPT !.prio[o] = c.prio]

(* Only a change of priority lists the output again.                       *)
ListedAgain(s, o, prio_changed) ==
  [output_insert(Unlink(s, o), o) EXCEPT !.on[o] = TRUE]

Enable(s, o, prio_changed) ==
  [IF prio_changed THEN output_insert(Unlink(s, o), o) ELSE s EXCEPT !.on[o] = TRUE]

Background(s, o) == [s EXCEPT !.bg[o] = s.scene[o] = "live"]

output_apply_config(s, o, c, fails) ==
  LET r == SetRole(s, o, c)
      p == SetPrio(r, o, c)
      placed == Ub(p, c.pos /\ p.scene[o] = "dangling")
  IN  IF c.role = "peripheral" /\ s.destroyed[o] THEN output_destroy(r, o)
      ELSE IF ModeFails(p, o, c, fails) THEN Disable(p, o)
      ELSE Background(
             IF c.status = "disable" /\ Len(p.outs) > 1 THEN Disable(placed, o)
             ELSE Enable(placed, o, p.prio[o] # s.prio[o]), o)

output_configure(s, o, fails) ==
  output_apply_config(s, o, s.config[s.name[o]], fails)

(* The struct a command for this name reaches: listed ones come first.     *)
Named(s, seq, m) ==
  LET found == {i \in DOMAIN seq : s.name[seq[i]] = m}
  IN  IF found = {} THEN NULL ELSE seq[CHOOSE i \in found : \A j \in found : i <= j]

keybinding_configure_output(s, m, c, fails) ==
  LET t == [s EXCEPT !.config[m] = merge_config(c, @)]
      o == Named(s, s.outs \o s.disabled, m)
  IN  IF o = NULL THEN t ELSE output_configure(t, o, fails)

(* `background` recolours bg of every output of both lists.                *)
keybinding_set_background(s) ==
  Ub(s, \E o \in Structs : (Listed(s.outs, o) \/ Listed(s.disabled, o)) /\ ~s.bg[o])

-----------------------------------------------------------------------------
(* A monitor appears.                                                      *)

Waiting(s, m) == {o \in Structs : Listed(s.outs, o) /\ s.name[o] = m /\ s.destroyed[o]}

(* A permanent output gets its monitor back and keeps its place.           *)
Reinit(s, o, fails) ==
  LET r == [DestroyScene(s, o) EXCEPT
              !.scene[o] = "live", !.destroyed[o] = FALSE, !.on[o] = TRUE]
  IN  output_configure(r, o, fails)

(* calloc, output_insert, output_configure, and only then workspaces.      *)
NewOutput(s, o, m, fails) ==
  LET new == [s EXCEPT !.name[o] = m, !.prio[o] = -1, !.role[o] = "peripheral",
                       !.destroyed[o] = FALSE, !.scene[o] = "live", !.on[o] = TRUE,
                       !.bg[o] = FALSE, !.ws[o] = FALSE, !.msgs[o] = "none"]
      done == output_configure(output_insert(new, o), o, fails)
  IN  [done EXCEPT !.ws[o] = TRUE, !.curr = IF @ = NULL THEN o ELSE @]

-----------------------------------------------------------------------------
(* The program.                                                            *)

Start ==
    [outs |-> <<>>, disabled |-> <<>>, todo |-> <<>>,
     name |-> [o \in Structs |-> NULL], prio |-> [o \in Structs |-> -1],
     role |-> [o \in Structs |-> "peripheral"],
     destroyed |-> [o \in Structs |-> FALSE],
     scene |-> [o \in Structs |-> "null"], on |-> [o \in Structs |-> FALSE],
     bg |-> [o \in Structs |-> FALSE], ws |-> [o \in Structs |-> FALSE],
     msgs |-> [o \in Structs |-> "none"], curr |-> NULL,
     home |-> [v \in Views |-> NULL],
     config |-> [m \in Monitors |-> [empty_output_config EXCEPT !.status = "enable"]],
     plugged |-> {}, alarm |-> FALSE, timed |-> TRUE, messages |-> TRUE,
     phase |-> "backend", ub |-> FALSE]

Init == server = Start

(* Nothing can be said of a program that used memory it must not use, so   *)
(* its state is forgotten.                                                 *)
Step(phases, s) ==
  /\ server.phase \in phases
  /\ ~server.ub
  /\ server' = IF s.ub THEN [Start EXCEPT !.ub = TRUE] ELSE s

(* A key binding or a line on the socket hides the messages of the current *)
(* output first; lines of the configuration file do not.                   *)
Cleared ==
  IF server.phase = "running" THEN message_clear(server, server.curr) ELSE server

Command(s) == Step({"config", "running"}, s)

(* One keyword per command; scale and rotate leave the lists alone.        *)
Keywords ==
  {[empty_output_config EXCEPT !.status = "enable"]}
  \cup {[empty_output_config EXCEPT !.pos = TRUE] : i \in Inputs \cap {"fails"}}
  \cup {[empty_output_config EXCEPT !.status = "disable"] : i \in Inputs \cap {"disable"}}
  \cup {[empty_output_config EXCEPT !.prio = n] : n \in Prios}
  \cup {[empty_output_config EXCEPT !.role = r] : r \in {"permanent", "peripheral"}}

(* Whether setting a mode may fail: when one is configured, and on another *)
(* output than the only one unless the run asks for that.                  *)
MayFail(m, pos, fails) ==
  fails => /\ "fails" \in Inputs
           /\ pos \/ server.config[m].pos
           /\ Len(server.outs) > 1 \/ "last_fails" \in Inputs

ConfigureOutput ==
  \E m \in Monitors, c \in Keywords, fails \in BOOLEAN :
    /\ MayFail(m, c.pos, fails)
    /\ Command(keybinding_configure_output(Cleared, m, c, fails))

CycleOutputs ==
  \E reverse \in BOOLEAN : Command(keybinding_cycle_outputs(Cleared, reverse))

SwitchOutput ==
  \E i \in DOMAIN server.outs : Command(set_output(Cleared, server.outs[i]))

(* time, show_info, errors and the commands that focus a tile; an unbound  *)
(* key shows a message without hiding the last one.                        *)
ShowMessage ==
  \/ Command(message_printf(Cleared, server.curr))
  \/ Step({"running"}, message_printf(server, server.curr))

SetBackground == Command(keybinding_set_background(Cleared))

(* configure_message enable, disable, and display_time.                    *)
ConfigureMessage ==
  \/ \E e \in BOOLEAN : Command([Cleared EXCEPT !.messages = e])
  \/ \E t \in {TRUE} \cup {FALSE : i \in Inputs \cap {"time0"}} :
       Command([Cleared EXCEPT !.timed = t])

NewView ==
  \E v \in Views :
    /\ server.home[v] = NULL
    /\ Step({"running"}, [server EXCEPT !.home[v] = server.curr])

Plug ==
  \E m \in Monitors \ server.plugged, fails \in BOOLEAN :
    LET s == [server EXCEPT !.plugged = @ \cup {m}]
    IN  /\ MayFail(m, FALSE, fails)
        /\ \/ \E o \in Waiting(server, m) :
                Step({"running"}, Reinit(s, o, fails))
           \/ /\ Waiting(server, m) = {}
              /\ \E o \in Structs :
                   /\ server.name[o] = NULL
                   /\ Step({"backend", "running"}, NewOutput(s, o, m, fails))

Unplug ==
  \E m \in server.plugged, o \in Structs :
    /\ server.name[o] = m
    /\ ~server.destroyed[o]
    /\ Step({"running"}, output_destroy([server EXCEPT !.plugged = @ \ {m}], o))

(* The timer set by alarm() is delivered by the event loop.                *)
Sigalrm ==
  /\ server.alarm
  /\ Step({"running"},
       [server EXCEPT
          !.alarm = FALSE,
          !.ub = \E o \in Structs : Listed(server.outs, o) /\ server.msgs[o] = "raw",
          !.msgs = [o \in Structs |->
                      IF Listed(server.outs, o) THEN "none" ELSE server.msgs[o]]])

(* main(): the backend starts, the configuration file is read, and then    *)
(* the outputs are listed and configured again one by one.                 *)
ReadConfig ==
  /\ server.outs # <<>>
  /\ Step({"backend"}, [server EXCEPT !.phase = "config"])

StartSorting ==
  Step({"config"}, [server EXCEPT !.phase = "sorting", !.todo = server.outs,
                                  !.outs = <<>>])

Resort ==
  \E fails \in BOOLEAN :
    LET o == Head(server.todo)
    IN  /\ server.todo # <<>>
        /\ MayFail(server.name[o], FALSE, fails)
        /\ Step({"sorting"},
             output_configure(output_insert([server EXCEPT !.todo = Tail(@)], o), o, fails))

Run ==
  /\ server.todo = <<>>
  /\ Step({"sorting"},
       IF server.outs = <<>> THEN Ub(server, TRUE)
       ELSE [server EXCEPT !.curr = Head(server.outs), !.phase = "running"])

Next ==
  \/ ReadConfig \/ StartSorting \/ Resort \/ Run
  \/ ConfigureOutput \/ CycleOutputs \/ SwitchOutput
  \/ ShowMessage \/ ConfigureMessage \/ SetBackground \/ Sigalrm
  \/ NewView \/ Plug \/ Unplug

Spec == Init /\ [][Next]_server

-----------------------------------------------------------------------------
(* Every field has the shape the code gives it.                            *)
TypeOK == server \in ServerType

(* The event loop runs.                                                    *)
Alive == server.phase = "running" /\ ~server.ub

(* The list of outputs is in order of descending priority whatever is      *)
(* plugged, configured, disabled and enabled: output_insert relies on it   *)
(* when it looks for a place, and `screen` numbers are positions in it.    *)
Sorted ==
  \A i, j \in DOMAIN server.outs :
    i < j => server.prio[server.outs[i]] >= server.prio[server.outs[j]]

(* An output is in one list, once; the current output and the output of    *)
(* every view are in use, and no two outputs in use have the same name, so *)
(* that a name in a command means one output.                              *)
OutputsInUse ==
  /\ \A i, j \in DOMAIN server.outs :
       server.name[server.outs[i]] = server.name[server.outs[j]] => i = j
  /\ \A o \in Structs : ~(Listed(server.outs, o) /\ Listed(server.disabled, o))
  /\ Alive => /\ Listed(server.outs, server.curr)
              /\ \A v \in Views :
                   server.home[v] # NULL => Listed(server.outs, server.home[v])

(* A message on an output in use has a timer that will hide it, although   *)
(* the process has one timer and the outputs move between two lists.       *)
MessagesTimed ==
  Alive => \A o \in Structs :
             server.msgs[o] # "none" => Listed(server.outs, o) /\ server.alarm

(* Memory is only misused around outputs that were disabled: a `disable`   *)
(* or a mode that may be refused is stored, or the scene output of some    *)
(* struct is gone.  Plugging, roles, priorities and messages never do it.  *)
AroundDisabled ==
  \/ \E m \in Monitors : server.config[m].status = "disable" \/ server.config[m].pos
  \/ \E o \in Structs : server.scene[o] = "dangling"

UbNeedsDisabled == [][server'.ub => AroundDisabled \/ server.ub]_server

(* A permanent output keeps its place, its views and its turn when its     *)
(* monitor goes and comes back ("operates as though it was never           *)
(* disconnected"), although its configuration is applied again; a stored   *)
(* `disable` and a stored mode that is refused (fails) are the exceptions. *)
PermanentKeepsPlace ==
  [][\A o \in Structs :
       (/\ Alive /\ ~server'.ub
        /\ Listed(server.outs, o)
        /\ server.role[o] = "permanent"
        /\ server.config[server.name[o]].status # "disable"
        /\ server.plugged \ {server.name[o]} = server'.plugged \ {server.name[o]}
        /\ server.plugged # server'.plugged)
       => /\ server'.outs = server.outs
          /\ server'.home = server.home
          /\ server'.curr = server.curr]_server

(* An enabled output is listed and can be drawn to (finding).              *)
EnabledShown ==
  Alive => \A o \in Structs :
    server.name[o] # NULL /\ server.on[o] /\ ~server.destroyed[o]
      => Listed(server.outs, o) /\ server.scene[o] = "live"
=============================================================================
