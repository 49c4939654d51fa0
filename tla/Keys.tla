-------------------------------- MODULE Keys --------------------------------
(***************************************************************************)
(* Input devices, keyboard groups, key bindings, modes and key repeat.     *)
(*                                                                         *)
(* A key press reaches the compositor through the group of its keyboard.   *)
(* The group remembers the binding to repeat as a pointer into the array   *)
(* of bindings, which `definekey` reallocates when it is full; the timer   *)
(* of the group dereferences that pointer while the key is held.           *)
(*                                                                         *)
(* Abstractions: a key has one keysym, the modifiers held with a key are   *)
(* part of the keysym, and the repeat rate is positive.  An array is known *)
(* by its capacity, since it only moves when that doubles.  wlroots lets a *)
(* group see the first press and the last release of a key among its       *)
(* keyboards, and releases the keys of a keyboard before it vanishes.      *)
(***************************************************************************)
EXTENDS Integers, FiniteSets, FiniteSetsExt, InputConfig, WlList

CONSTANTS
  Devices,      \* input devices that may be plugged
  TypeOf,       \* the type of each
  IdentOf,      \* the identifier of each
  Groups,       \* addresses of struct cg_keyboard_group
  Keysyms,
  Modifiers,    \* the keysyms key_is_modifier knows
  Bindings,     \* what `bind`, `escape` and `definekey` may define
  Lines,        \* the other actions of commands on the socket
  MaxModes,     \* bound on the number of modes
  MaxBindings,  \* bound on the length of the array of bindings
  MaxConfigs,   \* bound on the number of input commands
  DeviceDelay,  \* repeat delay of a fresh keyboard, and the default
  NULL,
  Inputs        \* classes of events a run explores

Keyboards == {d \in Devices : TypeOf[d] = "keyboard"}
Counted == {"keyboard", "pointer", "touch"}

(* Actions are records: [type |-> "run"], "mode" and "default" with the    *)
(* mode to enter, "input" with a configuration.                            *)
Acts == {b.act : b \in Bindings} \cup Lines

ASSUME KeysAssumption ==
  /\ MaxModes \in Nat /\ MaxModes >= 3
  /\ Modifiers \subseteq Keysyms
  /\ \A b \in Bindings : b.key \in Keysyms /\ b.mode \in 0 .. MaxModes - 1
  /\ {"keybindings", "delay"} \subseteq Settings
  /\ \A act \in Acts :
       /\ act.type \in {"mode", "default"} => act.to \in Nat
       /\ act.type = "input" =>
            /\ act.config.val["keybindings"] \in BOOLEAN \cup {Unset}
            /\ act.config.val["delay"] \in Nat \cup {Unset}
  /\ DeviceDelay \in Nat \ {0}
  /\ NULL \notin Groups \cup Devices

VARIABLES
  bindings,      \* the array of key bindings
  capacity,      \* its capacity
  nmodes,        \* number of modes; 0 is top, 1 is root
  mode,          \* seat->mode
  default_mode,  \* seat->default_mode
  configs,       \* server->input_config
  plugged,       \* devices present
  num,           \* seat->num_keyboards, num_pointers, num_touch
  caps,          \* the seat's capabilities
  groups,        \* seat->keyboard_groups
  member,        \* the group of a keyboard
  ident,         \* group->identifier
  enable,        \* group->enable_keybindings
  delay,         \* the group's repeat_info.delay
  repeat,        \* group->repeat_keybinding
  held,          \* the keys held on a keyboard
  seat_keyboard, \* the keyboard of the wlr_seat: a device or a group
  ub             \* repeat_keybinding pointed into a freed array

lists == <<bindings, capacity>>
settings == <<configs, enable, delay>>
devices == <<plugged, num, caps, groups, member, ident>>
vars == <<bindings, capacity, nmodes, mode, default_mode, configs, plugged, num,
          caps, groups, member, ident, enable, delay, repeat, held,
          seat_keyboard, ub>>

-----------------------------------------------------------------------------
(* The array of key bindings.                                              *)

IsFor(b, key, m) == b.key = key /\ b.mode = m

(* The index of the binding for this key and mode, 0 without one.          *)
find_keybinding(key, m) ==
  IF \E i \in DOMAIN bindings : IsFor(bindings[i], key, m)
  THEN CHOOSE i \in DOMAIN bindings : IsFor(bindings[i], key, m)
  ELSE 0

keybinding_resize == IF Len(bindings) = capacity THEN 2 * capacity ELSE capacity

(* A second binding for a key and a mode takes the place of the first.     *)
StoredTwice(b) == Append(bindings, b)

Stored(b) ==
  LET i == find_keybinding(b.key, b.mode)
  IN  IF i # 0 THEN [bindings EXCEPT ![i] = b] ELSE Append(bindings, b)

keybinding_list_push(b) ==
  /\ capacity' = keybinding_resize
  /\ bindings' = Stored(b)

-----------------------------------------------------------------------------
(* Configuration of keyboard groups.                                       *)

Enabled(c, i) == GroupSetting(c, i, "keybindings", TRUE)

Delay(c, i) == GroupSetting(c, i, "delay", DeviceDelay)

(* cg_input_manager_configure for the groups; enable_keybindings stays as  *)
(* it is when no command sets it.                                          *)
cg_input_manager_configure(c) ==
  /\ enable' = [g \in Groups |->
       IF g \in ToSet(groups) /\ GroupConfig(c, ident[g]).val["keybindings"] # Unset
       THEN Enabled(c, ident[g]) ELSE enable[g]]
  /\ delay' = [g \in Groups |->
       IF g \in ToSet(groups) THEN Delay(c, ident[g]) ELSE delay[g]]

keybinding_configure_input(c) ==
  /\ Len(configs) < MaxConfigs
  /\ configs' = <<c>> \o configs
  /\ cg_input_manager_configure(configs')

(* m is the mode when the action runs.                                     *)
run_action(act, m) ==
  /\ mode' = IF act.type \in {"mode", "default"} THEN act.to ELSE m
  /\ default_mode' = IF act.type = "default" THEN act.to ELSE default_mode
  /\ IF act.type = "input" THEN keybinding_configure_input(act.config)
     ELSE UNCHANGED settings

-----------------------------------------------------------------------------
(* Key events of a group.                                                  *)

KeyboardsOf(g) == {d \in Keyboards : member[d] = g}

HeldIn(g) == UNION {held[d] : d \in KeyboardsOf(g)}

Armed(i) == [array |-> capacity, index |-> i, key |-> bindings[i].key]

DisarmedIfEnabled(g) == [repeat EXCEPT ![g] = IF enable[g] THEN NULL ELSE @]

keyboard_disarm_key_repeat(g) == [repeat EXCEPT ![g] = NULL]

(* A key without binding is swallowed in every mode but top.               *)
handle_command_key_bindings(g, key) ==
  LET i == find_keybinding(key, mode)
  IN  IF i # 0
      THEN /\ repeat' = IF delay[g] > 0 THEN [repeat EXCEPT ![g] = Armed(i)] ELSE repeat
           /\ run_action(bindings[i].act, default_mode)
           /\ UNCHANGED seat_keyboard
      ELSE /\ mode' = default_mode
           /\ seat_keyboard' = IF mode # 0 THEN seat_keyboard ELSE g
           /\ UNCHANGED <<default_mode, repeat>> /\ UNCHANGED settings

ToClient(g) ==
  /\ seat_keyboard' = g
  /\ UNCHANGED <<mode, default_mode, repeat>> /\ UNCHANGED settings

KeyPressed(g, key) ==
  IF key \in Modifiers
  THEN /\ repeat' = keyboard_disarm_key_repeat(g)
       /\ seat_keyboard' = g
       /\ UNCHANGED <<mode, default_mode>> /\ UNCHANGED settings
  ELSE IF enable[g] THEN handle_command_key_bindings(g, key)
  ELSE ToClient(g)

Press ==
  \E d \in plugged \cap Keyboards, key \in Keysyms :
    LET g == member[d]
    IN  /\ ~ub /\ key \notin held[d]
        /\ held' = [held EXCEPT ![d] = @ \cup {key}]
        /\ IF g = NULL \/ key \in HeldIn(g)
           THEN UNCHANGED <<mode, default_mode, repeat, seat_keyboard>>
                  /\ UNCHANGED settings
           ELSE KeyPressed(g, key)
        /\ UNCHANGED <<nmodes, ub>> /\ UNCHANGED lists /\ UNCHANGED devices

(* The keys of a group that no other keyboard of it holds.                 *)
LastHeld(d, keys) ==
  {key \in keys : \A e \in KeyboardsOf(member[d]) \ {d} : key \notin held[e]}

Release ==
  \E d \in plugged \cap Keyboards : \E key \in held[d] :
    LET g == member[d]
    IN  /\ ~ub
        /\ held' = [held EXCEPT ![d] = @ \ {key}]
        /\ IF g # NULL /\ LastHeld(d, {key}) # {}
           THEN repeat' = keyboard_disarm_key_repeat(g) /\ seat_keyboard' = g
           ELSE UNCHANGED <<repeat, seat_keyboard>>
        /\ UNCHANGED <<nmodes, mode, default_mode, ub>>
        /\ UNCHANGED lists /\ UNCHANGED devices /\ UNCHANGED settings

(* The timer fires while a binding is remembered.  A pointer into an array *)
(* that was reallocated ends what can be said of the program.              *)
handle_keyboard_repeat ==
  \E g \in ToSet(groups) :
    /\ ~ub /\ repeat[g] # NULL
    /\ IF repeat[g].array # capacity
       THEN ub' = TRUE /\ UNCHANGED <<mode, default_mode>> /\ UNCHANGED settings
       ELSE run_action(bindings[repeat[g].index].act, mode) /\ UNCHANGED ub
    /\ UNCHANGED <<nmodes, repeat, held, seat_keyboard>>
    /\ UNCHANGED lists /\ UNCHANGED devices

-----------------------------------------------------------------------------
(* Devices.                                                                *)

seat_capabilities(n) == {t \in Counted : n[t] > 0}

(* Where the groups with the repeat info of a fresh keyboard are in the    *)
(* list; virtual keyboards are not grouped.                                *)
Joinable(virtual) == {i \in DOMAIN groups : ~virtual /\ delay[groups[i]] = DeviceDelay}

NotConfigured(d, g) ==
  /\ enable' = [enable EXCEPT ![g] = TRUE]
  /\ delay' = [delay EXCEPT ![g] = DeviceDelay]

ConfigureNewGroup(d, g) ==
  /\ enable' = [enable EXCEPT ![g] = Enabled(configs, IdentOf[d])]
  /\ delay' = [delay EXCEPT ![g] = Delay(configs, IdentOf[d])]

cg_keyboard_group_add(d, virtual) ==
  IF Joinable(virtual) # {}
  THEN /\ member' = [member EXCEPT ![d] = groups[Min(Joinable(virtual))]]
       /\ UNCHANGED <<groups, ident, enable, delay, repeat>>
  ELSE \E g \in Groups \ ToSet(groups) :
         /\ member' = [member EXCEPT ![d] = g]
         /\ groups' = <<g>> \o groups
         /\ ident' = [ident EXCEPT ![g] = IdentOf[d]]
         /\ repeat' = [repeat EXCEPT ![g] = NULL]
         /\ ConfigureNewGroup(d, g)

NotCounted(t) == num

(* The counters are uint16_t.                                              *)
Count(t) == IF t \in Counted THEN [num EXCEPT ![t] = (@ + 1) % 65536] ELSE num

Uncount(t) == IF t \in Counted THEN [num EXCEPT ![t] = (@ - 1) % 65536] ELSE num

(* new_input and seat_add_device; new_keyboard gives up without a keymap.  *)
new_input ==
  \E d \in Devices \ plugged, keymap \in BOOLEAN, virtual \in BOOLEAN :
    LET added == TypeOf[d] = "keyboard" /\ keymap
        t == IF TypeOf[d] = "keyboard" /\ ~keymap THEN "none" ELSE TypeOf[d]
    IN  /\ ~ub
        /\ virtual => TypeOf[d] = "keyboard"
        /\ keymap \/ (TypeOf[d] = "keyboard" /\ "no_keymap" \in Inputs)
        /\ plugged' = plugged \cup {d}
        /\ num' = Count(t)
        /\ caps' = IF TypeOf[d] \in Counted THEN seat_capabilities(num') ELSE caps
        /\ IF added THEN cg_keyboard_group_add(d, virtual) /\ seat_keyboard' = d
           ELSE UNCHANGED <<groups, member, ident, enable, delay, repeat, seat_keyboard>>
        /\ UNCHANGED <<nmodes, mode, default_mode, configs, held, ub>>
        /\ UNCHANGED lists

(* The group dies with its last keyboard.                                  *)
EmptyGroupStays(d) ==
  /\ UNCHANGED <<groups, repeat>>
  /\ seat_keyboard' = IF seat_keyboard = d THEN NULL ELSE seat_keyboard

remove_keyboard(d) ==
  LET g == member[d]
      empty == g # NULL /\ KeyboardsOf(g) = {d}
      released == g # NULL /\ LastHeld(d, held[d]) # {}
      user == IF released THEN g ELSE seat_keyboard
  IN  /\ groups' = IF empty THEN wl_list_remove(groups, g) ELSE groups
      /\ repeat' = IF released \/ empty THEN keyboard_disarm_key_repeat(g) ELSE repeat
      /\ seat_keyboard' = IF user = d \/ (empty /\ user = g) THEN NULL ELSE user

seat_remove_device ==
  \E d \in plugged :
    /\ ~ub
    /\ plugged' = plugged \ {d}
    /\ num' = Uncount(TypeOf[d])
    /\ caps' = IF TypeOf[d] \in Counted THEN seat_capabilities(num') ELSE caps
    /\ IF TypeOf[d] = "keyboard"
       THEN /\ remove_keyboard(d)
            /\ member' = [member EXCEPT ![d] = NULL]
            /\ held' = [held EXCEPT ![d] = {}]
       ELSE UNCHANGED <<groups, repeat, seat_keyboard, member, held>>
    /\ UNCHANGED <<nmodes, mode, default_mode, ident, ub>>
    /\ UNCHANGED lists /\ UNCHANGED settings

-----------------------------------------------------------------------------
(* Commands on the socket.                                                 *)

(* The parser only knows the modes that were defined.                      *)
ModesKnown(act) == act.type \in {"mode", "default"} => act.to < nmodes

definekey ==
  \E b \in Bindings :
    /\ ~ub /\ b.mode < nmodes /\ ModesKnown(b.act)
    /\ Len(bindings) < MaxBindings \/ find_keybinding(b.key, b.mode) # 0
    /\ keybinding_list_push(b)
    /\ UNCHANGED <<nmodes, mode, default_mode, repeat, held, seat_keyboard, ub>>
    /\ UNCHANGED devices /\ UNCHANGED settings

definemode ==
  /\ ~ub /\ nmodes < MaxModes
  /\ nmodes' = nmodes + 1
  /\ UNCHANGED <<mode, default_mode, repeat, held, seat_keyboard, ub>>
  /\ UNCHANGED lists /\ UNCHANGED devices /\ UNCHANGED settings

parse_rc_line ==
  \E act \in Lines :
    /\ ~ub /\ ModesKnown(act)
    /\ run_action(act, mode)
    /\ UNCHANGED <<nmodes, repeat, held, seat_keyboard, ub>>
    /\ UNCHANGED lists /\ UNCHANGED devices

-----------------------------------------------------------------------------

Init ==
  /\ bindings = <<>> /\ capacity = 1
  /\ nmodes = 3 /\ mode = 0 /\ default_mode = 0
  /\ configs = <<>> /\ plugged = {}
  /\ num = [t \in Counted |-> 0] /\ caps = {}
  /\ groups = <<>> /\ member = [d \in Devices |-> NULL]
  /\ ident = [g \in Groups |-> NULL] /\ enable = [g \in Groups |-> TRUE]
  /\ delay = [g \in Groups |-> DeviceDelay] /\ repeat = [g \in Groups |-> NULL]
  /\ held = [d \in Devices |-> {}] /\ seat_keyboard = NULL /\ ub = FALSE

Next ==
  \/ Press \/ Release \/ handle_keyboard_repeat
  \/ new_input \/ seat_remove_device
  \/ definekey \/ definemode \/ parse_rc_line

Spec == Init /\ [][Next]_vars

-----------------------------------------------------------------------------
(* Every variable has the shape the code gives it.                         *)
TypeOK ==
  /\ bindings \in Seq(Bindings) /\ capacity \in Nat \ {0}
  /\ nmodes \in 3 .. MaxModes /\ mode \in 0 .. nmodes - 1
  /\ default_mode \in 0 .. nmodes - 1
  /\ plugged \subseteq Devices /\ num \in [Counted -> 0 .. Cardinality(Devices)]
  /\ caps \subseteq Counted
  /\ groups \in Seq(Groups) /\ member \in [Devices -> Groups \cup {NULL}]
  /\ enable \in [Groups -> BOOLEAN] /\ delay \in [Groups -> Nat]
  /\ held \in [Devices -> SUBSET Keysyms]
  /\ seat_keyboard \in Keyboards \cup Groups \cup {NULL}
  /\ ub \in BOOLEAN

(* The array has one binding for a key and a mode ("Maintain that only a   *)
(* single keybinding for a key, modifier and mode may exist") and never    *)
(* outgrows its capacity, whatever is defined again while it is full.      *)
OneBinding ==
  /\ Len(bindings) <= capacity
  /\ \A i, j \in DOMAIN bindings :
       IsFor(bindings[i], bindings[j].key, bindings[j].mode) => i = j

(* A binding is repeated only while its key is held on a keyboard of the   *)
(* group, and is the binding of that key, unless the array was reallocated *)
(* in the meantime: keyboards that leave, keys pressed on two keyboards,   *)
(* bindings replaced and key bindings switched off cannot make a repeat go *)
(* on without its key.                                                     *)
RepeatIsHeld ==
  \A g \in Groups :
    repeat[g] # NULL =>
      /\ repeat[g].key \in HeldIn(g)
      /\ repeat[g].array = capacity => bindings[repeat[g].index].key = repeat[g].key

(* A plugged keyboard is in one listed group, no listed group is empty, a  *)
(* seat has the capabilities of its devices, and the keyboard it uses is   *)
(* plugged or a listed group.                                              *)
DevicesAgree ==
  /\ \A d \in Keyboards : d \in plugged <=> member[d] \in ToSet(groups)
  /\ \A g \in ToSet(groups) : KeyboardsOf(g) # {}
  /\ caps = {t \in Counted : \E d \in plugged : TypeOf[d] = t}
  /\ seat_keyboard \in (plugged \cap Keyboards) \cup ToSet(groups) \cup {NULL}

(* The settings of a group are those the commands so far give a keyboard   *)
(* of its identifier: plugging first and configuring then comes to the     *)
(* same as the other way round.                                            *)
SettingsFollow ==
  \A g \in ToSet(groups) :
    enable[g] = Enabled(configs, ident[g]) /\ delay[g] = Delay(configs, ident[g])

(* The newest command that gives a setting for a device decides:           *)
(* "Configurations are applied sequentially" (finding).                    *)
Newest(d, s, default) ==
  LET given == SelectSeq(configs, LAMBDA c : /\ Matches(c, IdentOf[d], TypeOf[d])
                                             /\ c.val[s] # Unset)
  IN  IF given = <<>> THEN default ELSE Head(given).val[s]

AppliedSequentially ==
  \A d \in plugged, s \in Settings :
    cg_input_configure_libinput_device(configs, IdentOf[d], TypeOf[d], s, Unset)
      = Newest(d, s, Unset)
=============================================================================
