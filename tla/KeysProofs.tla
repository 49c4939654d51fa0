----------------------------- MODULE KeysProofs -----------------------------
(***************************************************************************)
(* Proofs about Keys for any number of devices, groups, bindings, modes    *)
(* and commands.  KeysInv: the array of bindings stays free of duplicates  *)
(* and within its capacity, and no binding is repeated without its key     *)
(* being held.  SeatInv: the groups are those of the keyboards present,    *)
(* and the counters, capabilities and keyboard of the seat are right.      *)
(* SettingsInv: the settings of the groups follow the commands.  ModeInv:  *)
(* modes exist.  They rest on each other: the timer runs a binding of the  *)
(* array, and a binding changes settings and modes.                        *)
(***************************************************************************)
EXTENDS Keys, ListProofs, FiniteSetTheorems

(* The array of bindings.                                                  *)
ArrayInv == bindings \in Seq(Bindings) /\ capacity \in Nat \ {0} /\ OneBinding

(* The functions over devices and groups, and what a device has that is    *)
(* absent or no keyboard.                                                  *)
DeviceInv ==
  /\ plugged \subseteq Devices
  /\ DOMAIN repeat = Groups /\ DOMAIN member = Devices
  /\ held \in [Devices -> SUBSET Keysyms]
  /\ \A d \in Devices \ (plugged \cap Keyboards) : member[d] = NULL /\ held[d] = {}

(* What RepeatIsHeld needs to be inductive: the remembered place is one of *)
(* the array while that is the same, and no newer array has its number.    *)
Repeats(g, r) ==
  /\ r.array \in Nat /\ r.array <= capacity
  /\ r.key \in HeldIn(g)
  /\ r.array = capacity => r.index \in DOMAIN bindings /\ bindings[r.index].key = r.key

RepeatInv == \A g \in Groups : repeat[g] # NULL => Repeats(g, repeat[g])

KeysInv == ArrayInv /\ DeviceInv /\ RepeatInv

-----------------------------------------------------------------------------
(* find_keybinding returns the place of a binding for the key and the mode *)
(* when there is one, else 0.                                              *)
LEMMA FoundIsFor ==
  ASSUME NEW key, NEW m, bindings \in Seq(Bindings)
  PROVE  LET i == find_keybinding(key, m)
         IN  \/ i \in DOMAIN bindings /\ IsFor(bindings[i], key, m)
             \/ i = 0 /\ \A j \in DOMAIN bindings : ~IsFor(bindings[j], key, m)
BY DEF find_keybinding

(* Storing a binding keeps the array free of duplicates and within its     *)
(* capacity, and leaves the key of every place as it was.                  *)
LEMMA PushKeeps ==
  ASSUME ArrayInv, NEW b \in Bindings, keybinding_list_push(b)
  PROVE  /\ ArrayInv'
         /\ capacity' = capacity \/ capacity' > capacity
         /\ \A i \in DOMAIN bindings :
              i \in DOMAIN bindings' /\ bindings'[i].key = bindings[i].key
<1> DEFINE i == find_keybinding(b.key, b.mode)
<1>1. /\ bindings \in Seq(Bindings) /\ capacity \in Nat \ {0} /\ Len(bindings) \in Nat
      /\ Len(bindings) <= capacity /\ DOMAIN bindings = 1 .. Len(bindings)
      /\ \A j, k \in DOMAIN bindings :
           IsFor(bindings[j], bindings[k].key, bindings[k].mode) => j = k
  BY LenProperties DEF ArrayInv, OneBinding
<1>2. /\ capacity' \in Nat \ {0} /\ (capacity' = capacity \/ capacity' > capacity)
      /\ Len(bindings) + 1 <= capacity'
  <2>1. capacity' = IF Len(bindings) = capacity THEN 2 * capacity ELSE capacity
    BY DEF keybinding_list_push, keybinding_resize
  <2>2. capacity \in Nat \ {0} /\ Len(bindings) \in Nat /\ Len(bindings) <= capacity
    BY <1>1
  <2>3. CASE Len(bindings) = capacity
    BY <2>1, <2>2, <2>3
  <2>4. CASE Len(bindings) # capacity
    BY <2>1, <2>2, <2>4
  <2> QED
    BY <2>3, <2>4
<1>3. CASE i # 0
  <2>1. i \in DOMAIN bindings /\ IsFor(bindings[i], b.key, b.mode)
    BY <1>1, <1>3, FoundIsFor
  <2>2. bindings' = [bindings EXCEPT ![i] = b]
    BY <1>3 DEF keybinding_list_push, Stored
  <2>3. /\ bindings' \in Seq(Bindings) /\ Len(bindings') = Len(bindings)
        /\ DOMAIN bindings' = DOMAIN bindings
        /\ \A j \in DOMAIN bindings : bindings'[j] = IF j = i THEN b ELSE bindings[j]
    BY <1>1, <2>1, <2>2, ExceptSeq
  <2>4. \A j \in DOMAIN bindings : /\ bindings'[j].key = bindings[j].key
                                   /\ bindings'[j].mode = bindings[j].mode
    BY <2>1, <2>3 DEF IsFor
  <2>5. \A j, k \in DOMAIN bindings' :
          IsFor(bindings'[j], bindings'[k].key, bindings'[k].mode) => j = k
    BY <1>1, <2>3, <2>4 DEF IsFor
  <2> QED
    BY <1>1, <1>2, <2>3, <2>4, <2>5 DEF ArrayInv, OneBinding
<1>4. CASE i = 0
  <2>1. \A j \in DOMAIN bindings : ~IsFor(bindings[j], b.key, b.mode)
    BY <1>1, <1>4, FoundIsFor
  <2>2. bindings' = Append(bindings, b)
    BY <1>4 DEF keybinding_list_push, Stored
  <2>3. /\ bindings' \in Seq(Bindings) /\ Len(bindings') = Len(bindings) + 1
        /\ DOMAIN bindings' = 1 .. Len(bindings) + 1
        /\ \A j \in DOMAIN bindings : bindings'[j] = bindings[j]
        /\ bindings'[Len(bindings) + 1] = b
    BY <1>1, <2>2, AppendProperties
  <2>4. \A j, k \in DOMAIN bindings' :
          IsFor(bindings'[j], bindings'[k].key, bindings'[k].mode) => j = k
    <3> SUFFICES ASSUME NEW j \in DOMAIN bindings', NEW k \in DOMAIN bindings',
                        IsFor(bindings'[j], bindings'[k].key, bindings'[k].mode)
                 PROVE  j = k
      OBVIOUS
    <3>1. CASE j \in DOMAIN bindings /\ k \in DOMAIN bindings
      BY <3>1, <1>1, <2>3
    <3>2. CASE j = Len(bindings) + 1 /\ k \in DOMAIN bindings
      BY <3>2, <1>1, <2>1, <2>3 DEF IsFor
    <3>3. CASE j \in DOMAIN bindings /\ k = Len(bindings) + 1
      BY <3>3, <1>1, <2>1, <2>3 DEF IsFor
    <3> QED
      BY <3>1, <3>2, <3>3, <1>1, <2>3
  <2> QED
    BY <1>1, <1>2, <2>3, <2>4 DEF ArrayInv, OneBinding
<1> QED
  BY <1>3, <1>4

-----------------------------------------------------------------------------
(* An action that leaves the array alone and takes no key from a group     *)
(* keeps what is repeated there.                                           *)
LEMMA SameArray ==
  ASSUME RepeatInv, UNCHANGED lists, DOMAIN repeat = Groups,
         \A g \in Groups : \/ repeat'[g] = NULL
                           \/ repeat'[g] = repeat[g] /\ HeldIn(g) \subseteq HeldIn(g)'
                           \/ Repeats(g, repeat[g])'
  PROVE  RepeatInv'
<1> SUFFICES ASSUME NEW g \in Groups, repeat'[g] # NULL
             PROVE  Repeats(g, repeat[g])'
  BY DEF RepeatInv
<1>1. CASE repeat'[g] = repeat[g] /\ HeldIn(g) \subseteq HeldIn(g)'
  BY <1>1 DEF RepeatInv, Repeats, lists
<1> QED
  BY <1>1

(* A pressed key arms the repeat of its own binding, disarms or does not   *)
(* touch it.                                                               *)
LEMMA PressKeeps ==
  ASSUME KeysInv, Press
  PROVE  KeysInv'
<1>1. PICK d \in plugged \cap Keyboards, key \in Keysyms :
        /\ held' = [held EXCEPT ![d] = @ \cup {key}]
        /\ UNCHANGED lists /\ UNCHANGED devices
        /\ \/ repeat' = repeat
           \/ KeyPressed(member[d], key)
  BY DEF Press
<1>2. /\ ArrayInv' /\ plugged' = plugged /\ member' = member
      /\ bindings' = bindings /\ capacity' = capacity
  BY <1>1 DEF KeysInv, ArrayInv, OneBinding, lists, devices
<1>3. /\ held' \in [Devices -> SUBSET Keysyms] /\ key \in held'[d]
      /\ \A e \in Devices : held[e] \subseteq held'[e]
      /\ \A e \in Devices \ (plugged \cap Keyboards) : held'[e] = held[e]
  BY <1>1 DEF KeysInv, DeviceInv
<1>4. \A g \in Groups : HeldIn(g) \subseteq HeldIn(g)'
  BY <1>2, <1>3 DEF HeldIn, KeyboardsOf, Keyboards
<1>5. key \in HeldIn(member[d])'
  BY <1>2, <1>3, <1>1 DEF HeldIn, KeyboardsOf, Keyboards
<1>6. /\ DOMAIN repeat' = Groups
      /\ \A g \in Groups : \/ repeat'[g] = NULL
                            \/ (repeat'[g] = repeat[g] /\ HeldIn(g) \subseteq HeldIn(g)')
                            \/ Repeats(g, repeat[g])'
  <2> DEFINE i == find_keybinding(key, mode)
  <2>1. DOMAIN repeat = Groups
    BY DEF KeysInv, DeviceInv
  <2>2. \/ repeat' = repeat
        \/ repeat' = [repeat EXCEPT ![member[d]] = NULL]
        \/ i # 0 /\ repeat' = [repeat EXCEPT ![member[d]] = Armed(i)]
    BY <1>1 DEF KeyPressed, handle_command_key_bindings, ToClient,
                keyboard_disarm_key_repeat
  <2>3. CASE repeat' = repeat \/ repeat' = [repeat EXCEPT ![member[d]] = NULL]
    BY <2>1, <2>3, <1>4
  <2>4. CASE i # 0 /\ repeat' = [repeat EXCEPT ![member[d]] = Armed(i)]
    <3>1. i \in DOMAIN bindings /\ IsFor(bindings[i], key, mode)
      BY <2>4, FoundIsFor DEF KeysInv, ArrayInv
    <3>2. /\ Armed(i).array = capacity /\ Armed(i).index = i
          /\ Armed(i).key = key
      BY <3>1 DEF Armed, IsFor
    <3>3. capacity \in Nat /\ capacity <= capacity
      BY DEF KeysInv, ArrayInv
    <3>4. ASSUME NEW g \in Groups, g = member[d] PROVE Repeats(g, repeat[g])'
      <4>1. repeat'[g] = Armed(i)
        BY <2>1, <2>4, <3>4
      <4> QED
        BY <4>1, <3>1, <3>2, <3>3, <3>4, <1>2, <1>5 DEF Repeats, IsFor
    <3>5. ASSUME NEW g \in Groups, g # member[d] PROVE repeat'[g] = repeat[g]
      BY <2>1, <2>4, <3>5
    <3> QED
      BY <2>1, <2>4, <3>4, <3>5, <1>4
  <2> QED
    BY <2>2, <2>3, <2>4
<1>7. RepeatInv'
  BY <1>1, <1>6, SameArray DEF KeysInv, DeviceInv
<1>8. DeviceInv'
  BY <1>2, <1>3, <1>6 DEF KeysInv, DeviceInv
<1> QED
  BY <1>2, <1>7, <1>8 DEF KeysInv

(* A released key disarms the repeat of its group, unless another keyboard *)
(* of the group still holds it.                                            *)
LEMMA ReleaseKeeps ==
  ASSUME KeysInv, Release
  PROVE  KeysInv'
<1>1. PICK d \in plugged \cap Keyboards : \E key \in held[d] :
        /\ held' = [held EXCEPT ![d] = @ \ {key}]
        /\ UNCHANGED lists /\ UNCHANGED devices
        /\ IF member[d] # NULL /\ LastHeld(d, {key}) # {}
           THEN repeat' = [repeat EXCEPT ![member[d]] = NULL]
           ELSE repeat' = repeat
  BY DEF Release, keyboard_disarm_key_repeat
<1>0. PICK key \in held[d] :
        /\ held' = [held EXCEPT ![d] = @ \ {key}]
        /\ UNCHANGED lists /\ UNCHANGED devices
        /\ IF member[d] # NULL /\ LastHeld(d, {key}) # {}
           THEN repeat' = [repeat EXCEPT ![member[d]] = NULL]
           ELSE repeat' = repeat
  BY <1>1
<1>2. /\ ArrayInv' /\ plugged' = plugged /\ member' = member
  BY <1>0 DEF KeysInv, ArrayInv, OneBinding, lists, devices
<1>3. /\ held' \in [Devices -> SUBSET Keysyms] /\ held'[d] = held[d] \ {key}
      /\ \A e \in Devices \ {d} : held'[e] = held[e]
      /\ \A e \in Devices \ (plugged \cap Keyboards) : held'[e] = held[e]
  BY <1>0 DEF KeysInv, DeviceInv
<1>4. DOMAIN repeat = Groups /\ DOMAIN repeat' = Groups
  BY <1>0 DEF KeysInv, DeviceInv
<1>5. ASSUME NEW g \in Groups, repeat'[g] # NULL
      PROVE  repeat'[g] = repeat[g] /\ HeldIn(g) \subseteq HeldIn(g)'
  <2>1. repeat'[g] = repeat[g]
    BY <1>0, <1>4, <1>5
  <2>2. CASE g # member[d]
    BY <2>1, <2>2, <1>2, <1>3 DEF HeldIn, KeyboardsOf, Keyboards
  <2>3. CASE g = member[d]
    <3>1. LastHeld(d, {key}) = {}
      BY <2>3, <1>0, <1>4, <1>5, KeysAssumption
    <3>2. PICK e \in KeyboardsOf(g) \ {d} : key \in held[e]
      BY <3>1, <2>3 DEF LastHeld
    <3>3. e \in Keyboards /\ member[e] = g /\ key \in held'[e]
      BY <3>2, <1>3 DEF KeyboardsOf, Keyboards
    <3>4. \A c \in Devices : \A k \in held[c] : k # key => k \in held'[c]
      BY <1>3
    <3>5. \A k \in HeldIn(g) : k # key => k \in HeldIn(g)'
      BY <3>4, <1>2 DEF HeldIn, KeyboardsOf, Keyboards
    <3>6. key \in HeldIn(g)'
      BY <3>3, <1>2 DEF HeldIn, KeyboardsOf
    <3> QED
      BY <2>1, <3>5, <3>6
  <2> QED
    BY <2>2, <2>3
<1>6. RepeatInv'
  BY <1>0, <1>4, <1>5, SameArray DEF KeysInv
<1>7. DeviceInv'
  BY <1>2, <1>3, <1>4 DEF KeysInv, DeviceInv
<1> QED
  BY <1>2, <1>6, <1>7 DEF KeysInv

(* A new keyboard joins a group or founds one, whose repeat is disarmed.   *)
LEMMA PlugKeeps ==
  ASSUME KeysInv, new_input
  PROVE  KeysInv'
<1>1. PICK d \in Devices \ plugged :
        /\ plugged' = plugged \cup {d}
        /\ held' = held /\ UNCHANGED lists
        /\ \/ member' = member
           \/ d \in Keyboards /\ \E g : member' = [member EXCEPT ![d] = g]
        /\ \/ repeat' = repeat
           \/ \E g \in Groups : repeat' = [repeat EXCEPT ![g] = NULL]
  BY DEF new_input, cg_keyboard_group_add, Keyboards
<1>2. /\ ArrayInv'
  BY <1>1 DEF KeysInv, ArrayInv, OneBinding, lists
<1>3. /\ DOMAIN repeat = Groups /\ DOMAIN repeat' = Groups
      /\ DOMAIN member = Devices /\ DOMAIN member' = Devices
      /\ member[d] = NULL /\ \A e \in Devices \ {d} : member'[e] = member[e]
  BY <1>1 DEF KeysInv, DeviceInv
<1>4. \A g \in Groups : repeat'[g] = NULL \/ repeat'[g] = repeat[g]
  BY <1>1, <1>3
<1>5. ASSUME NEW g \in Groups PROVE HeldIn(g) \subseteq HeldIn(g)'
  <2>1. KeyboardsOf(g) \subseteq KeyboardsOf(g)'
    BY <1>3, KeysAssumption DEF KeyboardsOf, Keyboards
  <2> QED
    BY <2>1, <1>1 DEF HeldIn
<1>6. RepeatInv'
  BY <1>1, <1>3, <1>4, <1>5, SameArray DEF KeysInv
<1>7. DeviceInv'
  BY <1>1, <1>3 DEF KeysInv, DeviceInv
<1> QED
  BY <1>2, <1>6, <1>7 DEF KeysInv

(* A keyboard that leaves disarms its group when it alone held a key, and  *)
(* when it is the last one of the group.                                   *)
LEMMA UnplugKeeps ==
  ASSUME KeysInv, seat_remove_device
  PROVE  KeysInv'
<1>1. PICK d \in plugged :
        /\ plugged' = plugged \ {d} /\ UNCHANGED lists
        /\ IF TypeOf[d] = "keyboard"
           THEN /\ remove_keyboard(d)
                /\ member' = [member EXCEPT ![d] = NULL]
                /\ held' = [held EXCEPT ![d] = {}]
           ELSE repeat' = repeat /\ member' = member /\ held' = held
  BY DEF seat_remove_device
<1>2. ArrayInv'
  BY <1>1 DEF KeysInv, ArrayInv, OneBinding, lists
<1>3. /\ DOMAIN repeat = Groups /\ DOMAIN member = Devices /\ d \in Devices
      /\ held \in [Devices -> SUBSET Keysyms] /\ plugged \subseteq Devices
      /\ \A e \in Devices \ (plugged \cap Keyboards) : member[e] = NULL /\ held[e] = {}
  BY DEF KeysInv, DeviceInv
<1>4. CASE TypeOf[d] = "keyboard"
  <2> DEFINE g == member[d]
             released == g # NULL /\ LastHeld(d, held[d]) # {}
  <2>1. /\ DOMAIN repeat' = Groups
        /\ \A h \in Groups : repeat'[h] = NULL \/ repeat'[h] = repeat[h]
        /\ released /\ g \in Groups => repeat'[g] = NULL
    BY <1>1, <1>3, <1>4 DEF remove_keyboard, keyboard_disarm_key_repeat
  <2>2. /\ DOMAIN member' = Devices /\ member'[d] = NULL
        /\ held' \in [Devices -> SUBSET Keysyms] /\ held'[d] = {}
        /\ \A e \in Devices \ {d} : member'[e] = member[e] /\ held'[e] = held[e]
    BY <1>1, <1>3, <1>4
  <2>3. ASSUME NEW h \in Groups, repeat'[h] # NULL
        PROVE  repeat'[h] = repeat[h] /\ HeldIn(h) \subseteq HeldIn(h)'
    <3>1. repeat'[h] = repeat[h]
      BY <2>1, <2>3
    <3>2. KeyboardsOf(h) \ {d} \subseteq KeyboardsOf(h)'
      BY <2>2 DEF KeyboardsOf, Keyboards
    <3>3. \A e \in KeyboardsOf(h) \ {d} : held[e] \subseteq HeldIn(h)'
      BY <3>2, <2>2 DEF HeldIn, KeyboardsOf, Keyboards
    <3>4. CASE h # g
      <4>1. d \notin KeyboardsOf(h)
        BY <3>4 DEF KeyboardsOf
      <4> QED
        BY <4>1, <3>1, <3>3 DEF HeldIn
    <3>5. CASE h = g
      <4>1. LastHeld(d, held[d]) = {}
        BY <3>5, <2>1, <2>3, KeysAssumption
      <4>2. \A key \in held[d] : \E e \in KeyboardsOf(h) \ {d} : key \in held[e]
        BY <4>1, <3>5 DEF LastHeld
      <4>3. held[d] \subseteq HeldIn(h)'
        BY <4>2, <3>3
      <4> QED
        BY <4>3, <3>1, <3>3 DEF HeldIn
    <3> QED
      BY <3>4, <3>5
  <2>4. RepeatInv'
    BY <1>1, <1>3, <2>3, SameArray DEF KeysInv
  <2>5. DeviceInv'
    BY <1>1, <1>3, <2>1, <2>2 DEF DeviceInv
  <2> QED
    BY <1>2, <2>4, <2>5 DEF KeysInv
<1>5. CASE TypeOf[d] # "keyboard"
  <2>1. RepeatInv'
    BY <1>1, <1>3, <1>5, SameArray DEF KeysInv, HeldIn, KeyboardsOf
  <2> QED
    BY <2>1, <1>1, <1>2, <1>3, <1>5 DEF KeysInv, DeviceInv, Keyboards
<1> QED
  BY <1>4, <1>5

-----------------------------------------------------------------------------
(* A binding stored while another is repeated leaves the place of that one *)
(* alone or moves the array away from it.                                  *)
LEMMA DefineKeeps ==
  ASSUME KeysInv, definekey
  PROVE  KeysInv'
<1>1. PICK b \in Bindings : keybinding_list_push(b)
  BY DEF definekey
<1>2. /\ repeat' = repeat /\ held' = held /\ plugged' = plugged /\ member' = member
  BY DEF definekey, devices
<1>3. /\ ArrayInv' /\ capacity \in Nat
      /\ capacity' = capacity \/ capacity' > capacity
      /\ \A i \in DOMAIN bindings :
           i \in DOMAIN bindings' /\ bindings'[i].key = bindings[i].key
  BY <1>1, PushKeeps DEF KeysInv, ArrayInv
<1>4. capacity' \in Nat
  BY <1>3 DEF ArrayInv
<1>5. ASSUME NEW g \in Groups, repeat[g] # NULL PROVE Repeats(g, repeat[g])'
  <2>1. Repeats(g, repeat[g])
    BY <1>5 DEF KeysInv, RepeatInv
  <2>2. repeat[g].array \in Nat /\ repeat[g].array <= capacity'
    BY <2>1, <1>3, <1>4 DEF Repeats
  <2>3. repeat[g].array = capacity' => capacity' = capacity
    BY <2>1, <1>3, <1>4 DEF Repeats
  <2>4. repeat[g].key \in HeldIn(g)'
    BY <2>1, <1>2 DEF Repeats, HeldIn, KeyboardsOf
  <2> QED
    BY <2>1, <2>2, <2>3, <2>4, <1>2, <1>3 DEF Repeats
<1>6. RepeatInv'
  BY <1>2, <1>5 DEF RepeatInv
<1> QED
  BY <1>2, <1>3, <1>6 DEF KeysInv, DeviceInv

(* The initial state.                                                      *)
LEMMA KeysInitially == Init => KeysInv
<1> SUFFICES ASSUME Init PROVE KeysInv
  OBVIOUS
<1>1. bindings = <<>> /\ capacity = 1
  BY DEF Init
<1>2. ArrayInv
  BY <1>1 DEF ArrayInv, OneBinding
<1> QED
  BY <1>2 DEF Init, KeysInv, DeviceInv, RepeatInv

(* Every step keeps the array, the devices and the repeats.                *)
LEMMA KeysInductive == KeysInv /\ [Next]_vars => KeysInv'
<1> SUFFICES ASSUME KeysInv, [Next]_vars PROVE KeysInv'
  OBVIOUS
<1>1. CASE Press
  BY <1>1, PressKeeps
<1>2. CASE Release
  BY <1>2, ReleaseKeeps
<1>3. CASE new_input
  BY <1>3, PlugKeeps
<1>4. CASE seat_remove_device
  BY <1>4, UnplugKeeps
<1>5. CASE definekey
  BY <1>5, DefineKeeps
<1>6. ASSUME UNCHANGED <<repeat, held, plugged, member, bindings, capacity>>
      PROVE  KeysInv'
  BY <1>6 DEF KeysInv, ArrayInv, OneBinding, DeviceInv, RepeatInv, Repeats,
              HeldIn, KeyboardsOf
<1>7. CASE handle_keyboard_repeat
  BY <1>6, <1>7 DEF handle_keyboard_repeat, lists, devices
<1>8. CASE definemode
  BY <1>6, <1>8 DEF definemode, lists, devices
<1>9. CASE parse_rc_line
  BY <1>6, <1>9 DEF parse_rc_line, lists, devices
<1>10. CASE UNCHANGED vars
  BY <1>6, <1>10 DEF vars
<1> QED
  BY <1>1, <1>2, <1>3, <1>4, <1>5, <1>7, <1>8, <1>9, <1>10 DEF Next

-----------------------------------------------------------------------------
(* However often keys are bound again, on the socket or in the             *)
(* configuration file, keybinding_list_push keeps one binding for a key    *)
(* and a mode and room for it in the array.                                *)
THEOREM BindingsUnique == Spec => []OneBinding
<1>1. KeysInv => OneBinding
  BY DEF KeysInv, ArrayInv
<1> QED
  BY <1>1, KeysInitially, KeysInductive, PTL DEF Spec

(* Whatever keyboards come and go and whatever is bound while keys are     *)
(* held, the timer of a group never repeats a key that no keyboard of the  *)
(* group holds, nor, while the array stays where it is, another binding.   *)
THEOREM RepeatsAreHeld == Spec => []RepeatIsHeld
<1>1. KeysInv => RepeatIsHeld
  BY DEF KeysInv, RepeatInv, Repeats, RepeatIsHeld
<1> QED
  BY <1>1, KeysInitially, KeysInductive, PTL DEF Spec

-----------------------------------------------------------------------------
(* A step of the function by which GroupConfig is defined.                 *)
Merges(c, i, g, k) ==
  g = [n \in 0 .. k |-> IF n = 0 THEN empty_input_config ELSE Merged(g[n - 1], c[n], i)]

(* The function that GroupConfig chooses exists, for any list of commands. *)
LEMMA MergeExists ==
  ASSUME NEW c, NEW i, NEW n \in Nat
  PROVE  \E g : Merges(c, i, g, n)
<1> DEFINE T == {k \in Nat : ~ \E g : Merges(c, i, g, k)}
<1>1. CASE T = {}
  BY <1>1
<1>2. CASE T # {}
  <2>1. PICK m \in T : \A k \in T : m <= k
    BY <1>2, LeastNat
  <2>2. CASE m = 0
    <3> DEFINE h == [k \in 0 .. 0 |-> empty_input_config]
    <3>1. h = [k \in 0 .. 0 |->
                 IF k = 0 THEN empty_input_config ELSE Merged(h[k - 1], c[k], i)]
      OBVIOUS
    <3> HIDE DEF h
    <3> QED
      BY <2>1, <2>2, <3>1 DEF Merges
  <2>3. CASE m # 0
    <3>1. m \in Nat /\ m - 1 \in Nat /\ ~(m <= m - 1)
      BY <2>1, <2>3
    <3>2. PICK g : Merges(c, i, g, m - 1)
      BY <2>1, <3>1
    <3> DEFINE h == [k \in 0 .. m |-> IF k = m THEN Merged(g[m - 1], c[m], i) ELSE g[k]]
    <3>3. g = [k \in 0 .. m - 1 |->
                 IF k = 0 THEN empty_input_config ELSE Merged(g[k - 1], c[k], i)]
      BY <3>2 DEF Merges
    <3>4. \A k \in 0 .. m :
            h[k] = IF k = 0 THEN empty_input_config ELSE Merged(h[k - 1], c[k], i)
      <4> TAKE k \in 0 .. m
      <4>1. k # 0 => k - 1 \in 0 .. m /\ k - 1 # m
        BY <3>1
      <4>2. CASE k = m
        BY <4>1, <4>2, <2>3
      <4>3. CASE k # m
        <5>1. k \in 0 .. m - 1
          BY <4>3, <3>1
        <5>2. g[k] = IF k = 0 THEN empty_input_config ELSE Merged(g[k - 1], c[k], i)
          BY <5>1, <3>3
        <5> QED
          BY <4>1, <4>3, <5>2
      <4> QED
        BY <4>2, <4>3
    <3>5. h = [k \in 0 .. m |-> h[k]]
      OBVIOUS
    <3> HIDE DEF h
    <3>6. Merges(c, i, h, m)
      BY <3>4, <3>5 DEF Merges
    <3> QED
      BY <2>1, <3>6
  <2> QED
    BY <2>2, <2>3
<1> QED
  BY <1>1, <1>2

(* A command for a keyboard group that gives setting s.                    *)
Gives(c, i, s) == Matches(c, i, "keyboard") /\ c.val[s] # Unset

(* Merging decides between two commands and takes no value from anywhere   *)
(* else.                                                                   *)
LEMMA MergedValue ==
  ASSUME NEW tot, NEW c, NEW i, NEW s \in Settings, Matches(c, i, "keyboard")
  PROVE  /\ Merged(tot, c, i).val[s] \in {tot.val[s], c.val[s]}
         /\ Merged(tot, c, i).val[s] = Unset <=> tot.val[s] = Unset /\ c.val[s] = Unset
BY DEF Merged, input_manager_merge_input_configs

(* A setting of a keyboard group is left open only when no command for it  *)
(* gives it, and is what one of these commands says otherwise.             *)
LEMMA GroupConfigGives ==
  ASSUME NEW S, NEW c \in Seq(S), NEW i, NEW s \in Settings
  PROVE  LET v == GroupConfig(c, i).val[s]
         IN  /\ v = Unset <=> \A j \in DOMAIN c : ~Gives(c[j], i, s)
             /\ v # Unset => \E j \in DOMAIN c : v = c[j].val[s]
<1> DEFINE n == Len(c)
           f == CHOOSE g : Merges(c, i, g, n)
<1>1. n \in Nat /\ DOMAIN c = 1 .. n
  BY LenProperties
<1>2. Merges(c, i, f, n)
  BY <1>1, MergeExists
<1>3. GroupConfig(c, i) = f[n]
  BY DEF GroupConfig, Merges
<1> HIDE DEF n, f
<1>4. \A k \in 0 .. n :
        f[k] = IF k = 0 THEN empty_input_config ELSE Merged(f[k - 1], c[k], i)
  BY <1>2 DEF Merges
<1> DEFINE Good(k) == /\ f[k].val[s] = Unset <=> \A j \in 1 .. k : ~Gives(c[j], i, s)
                      /\ f[k].val[s] # Unset => \E j \in 1 .. k : f[k].val[s] = c[j].val[s]
           T == {k \in 0 .. n : ~Good(k)}
<1> HIDE DEF Good
<1>5. CASE T = {}
  <2>1. n \in 0 .. n
    BY <1>1
  <2>2. Good(n)
    BY <1>5, <2>1
  <2> QED
    BY <1>1, <1>3, <2>2 DEF Good, n
<1>6. CASE T # {}
  <2>1. PICK m \in T : \A k \in T : m <= k
    <3>1. T \in SUBSET Nat
      BY <1>1
    <3> HIDE DEF T
    <3> QED
      BY <1>6, <3>1, LeastNat
  <2>2. m \in 0 .. n /\ ~Good(m)
    BY <2>1
  <2>3. CASE m = 0
    <3>1. f[m].val[s] = Unset
      BY <1>4, <2>2, <2>3 DEF empty_input_config
    <3>2. \A j : j \notin 1 .. m
      BY <2>3
    <3> QED
      BY <2>2, <3>1, <3>2 DEF Good
  <2>4. CASE m # 0
    <3>1. m - 1 \in 0 .. n /\ ~(m <= m - 1)
      BY <1>1, <2>2, <2>4
    <3>2. Good(m - 1)
      BY <2>1, <3>1
    <3>3. f[m] = Merged(f[m - 1], c[m], i)
      BY <1>4, <2>2, <2>4
    <3>4. \A j : j \in 1 .. m <=> j \in 1 .. m - 1 \/ j = m
      BY <2>2, <2>4
    <3>5. CASE Matches(c[m], i, "keyboard")
      <4>1. /\ f[m].val[s] \in {f[m - 1].val[s], c[m].val[s]}
            /\ f[m].val[s] = Unset <=> f[m - 1].val[s] = Unset /\ c[m].val[s] = Unset
        BY <3>3, <3>5, MergedValue
      <4>2. f[m].val[s] = Unset <=> \A j \in 1 .. m : ~Gives(c[j], i, s)
        BY <3>2, <3>4, <3>5, <4>1 DEF Good, Gives
      <4>3. f[m].val[s] # Unset => \E j \in 1 .. m : f[m].val[s] = c[j].val[s]
        BY <3>2, <3>4, <4>1 DEF Good
      <4> QED
        BY <2>2, <4>2, <4>3 DEF Good
    <3>6. CASE ~Matches(c[m], i, "keyboard")
      <4>1. f[m] = f[m - 1]
        BY <3>3, <3>6 DEF Merged
      <4>2. f[m].val[s] = Unset <=> \A j \in 1 .. m : ~Gives(c[j], i, s)
        BY <3>2, <3>4, <3>6, <4>1 DEF Good, Gives
      <4>3. f[m].val[s] # Unset => \E j \in 1 .. m : f[m].val[s] = c[j].val[s]
        BY <3>2, <3>4, <4>1 DEF Good
      <4> QED
        BY <2>2, <4>2, <4>3 DEF Good
    <3> QED
      BY <3>5, <3>6
  <2> QED
    BY <2>3, <2>4
<1> QED
  BY <1>5, <1>6

(* A new command never makes a setting unset again.                        *)
LEMMA StaysGiven ==
  ASSUME NEW S, NEW c \in Seq(S), NEW e \in S, NEW i, NEW s \in Settings,
         GroupConfig(<<e>> \o c, i).val[s] = Unset
  PROVE  GroupConfig(c, i).val[s] = Unset
<1>1. /\ <<e>> \o c \in Seq(S) /\ Len(<<e>> \o c) = Len(c) + 1
      /\ \A j \in 1 .. Len(c) : (<<e>> \o c)[j + 1] = c[j]
      /\ Len(c) \in Nat /\ DOMAIN c = 1 .. Len(c)
  <2>1. <<e>> \in Seq(S) /\ Len(<<e>>) = 1
    OBVIOUS
  <2>2. Len(c) \in Nat /\ DOMAIN c = 1 .. Len(c)
    BY LenProperties
  <2> DEFINE one == <<e>>
  <2> HIDE DEF one
  <2>3. /\ one \o c \in Seq(S) /\ Len(one \o c) = Len(one) + Len(c)
        /\ \A j \in 1 .. Len(one) + Len(c) :
             (one \o c)[j] = IF j <= Len(one) THEN one[j] ELSE c[j - Len(one)]
    BY <2>1, ConcatProperties DEF one
  <2>4. \A j \in 1 .. Len(c) : j + 1 \in 1 .. 1 + Len(c) /\ ~(j + 1 <= 1) /\ (j + 1) - 1 = j
    BY <2>2
  <2>5. Len(one) = 1
    BY <2>1 DEF one
  <2>6. \A j \in 1 .. Len(c) : (one \o c)[j + 1] = c[j]
    BY <2>3, <2>4, <2>5
  <2> QED
    BY <2>2, <2>3, <2>5, <2>6 DEF one
<1>2. DOMAIN (<<e>> \o c) = 1 .. Len(c) + 1
  BY <1>1, LenProperties
<1>3. \A j \in DOMAIN (<<e>> \o c) : ~Gives((<<e>> \o c)[j], i, s)
  BY <1>1, GroupConfigGives
<1>4. \A j \in DOMAIN c : ~Gives(c[j], i, s)
  <2>1. \A j \in DOMAIN c : j + 1 \in DOMAIN (<<e>> \o c)
    BY <1>1, <1>2
  <2> QED
    BY <1>1, <1>3, <2>1
<1> QED
  BY <1>4, GroupConfigGives

-----------------------------------------------------------------------------
(* As many devices as the counters of the seat can count.                  *)
FewDevices == IsFiniteSet(Devices) /\ Cardinality(Devices) < 65536

OfType(t) == {d \in plugged : TypeOf[d] = t}

(* The groups of the keyboards and what the seat knows of its devices.     *)
SeatInv ==
  /\ plugged \subseteq Devices
  /\ groups \in Seq(Groups) /\ Distinct(groups)
  /\ member \in [Devices -> Groups \cup {NULL}]
  /\ num = [t \in Counted |-> Cardinality(OfType(t))]
  /\ DevicesAgree

(* A device that comes adds one to the number of its type.                 *)
LEMMA CountsOneMore ==
  ASSUME FewDevices, SeatInv, NEW d \in Devices \ plugged, plugged' = plugged \cup {d}
  PROVE  Count(TypeOf[d]) = [t \in Counted |-> Cardinality(OfType(t)')]
<1>1. ASSUME NEW t \in Counted
      PROVE  /\ IsFiniteSet(OfType(t)) /\ Cardinality(OfType(t)) \in Nat
             /\ OfType(t)' = IF t = TypeOf[d] THEN OfType(t) \cup {d} ELSE OfType(t)
             /\ d \notin OfType(t)
             /\ Cardinality(OfType(t)') <= Cardinality(Devices)
  <2>1. OfType(t) \in SUBSET Devices /\ OfType(t)' \in SUBSET Devices
    BY DEF OfType, SeatInv
  <2>2. IsFiniteSet(OfType(t)) /\ Cardinality(OfType(t)) \in Nat
    BY <2>1, FS_Subset, FS_CardinalityType DEF FewDevices
  <2>3. Cardinality(OfType(t)') <= Cardinality(Devices)
    BY <2>1, FS_Subset DEF FewDevices
  <2>4. OfType(t)' = IF t = TypeOf[d] THEN OfType(t) \cup {d} ELSE OfType(t)
    BY DEF OfType
  <2> QED
    BY <2>2, <2>3, <2>4 DEF OfType
<1>2. \A n \in Nat : n + 1 < 65536 => (n + 1) % 65536 = n + 1
  OBVIOUS
<1>3. ASSUME NEW t \in Counted
      PROVE  Count(TypeOf[d])[t] = Cardinality(OfType(t)')
  <2>1. num[t] = Cardinality(OfType(t)) /\ DOMAIN num = Counted
    BY DEF SeatInv
  <2>2. CASE t = TypeOf[d]
    <3>1. OfType(t)' = OfType(t) \cup {d} /\ d \notin OfType(t)
      BY <1>1, <2>2
    <3>2. Cardinality(OfType(t)') = Cardinality(OfType(t)) + 1
      BY <1>1, <3>1, FS_AddElement
    <3>3. Cardinality(Devices) \in Nat /\ Cardinality(Devices) < 65536
      BY FS_CardinalityType DEF FewDevices
    <3>4. Cardinality(OfType(t)) + 1 < 65536
      BY <1>1, <3>2, <3>3
    <3>5. (Cardinality(OfType(t)) + 1) % 65536 = Cardinality(OfType(t)) + 1
      BY <1>1, <1>2, <3>4
    <3> QED
      BY <2>1, <2>2, <3>2, <3>5 DEF Count
  <2>3. CASE t # TypeOf[d]
    BY <1>1, <2>1, <2>3 DEF Count
  <2> QED
    BY <2>2, <2>3
<1>4. Count(TypeOf[d]) = [t \in Counted |-> Count(TypeOf[d])[t]]
  BY DEF Count, SeatInv
<1> HIDE DEF Count
<1> QED
  BY <1>3, <1>4

(* A device that leaves takes one from the number of its type, which does  *)
(* not wrap.                                                               *)
LEMMA CountsOneLess ==
  ASSUME FewDevices, SeatInv, NEW d \in plugged, plugged' = plugged \ {d}
  PROVE  Uncount(TypeOf[d]) = [t \in Counted |-> Cardinality(OfType(t)')]
<1>1. ASSUME NEW t \in Counted
      PROVE  /\ IsFiniteSet(OfType(t)) /\ Cardinality(OfType(t)) \in Nat
             /\ OfType(t)' = IF t = TypeOf[d] THEN OfType(t) \ {d} ELSE OfType(t)
             /\ Cardinality(OfType(t)) <= Cardinality(Devices)
  <2>1. OfType(t) \in SUBSET Devices
    BY DEF OfType, SeatInv
  <2>2. IsFiniteSet(OfType(t)) /\ Cardinality(OfType(t)) \in Nat
    BY <2>1, FS_Subset, FS_CardinalityType DEF FewDevices
  <2>3. Cardinality(OfType(t)) <= Cardinality(Devices)
    BY <2>1, FS_Subset DEF FewDevices
  <2>4. OfType(t)' = IF t = TypeOf[d] THEN OfType(t) \ {d} ELSE OfType(t)
    BY DEF OfType
  <2> QED
    BY <2>2, <2>3, <2>4
<1>2. \A n \in Nat : n # 0 /\ n < 65536 => (n - 1) % 65536 = n - 1
  OBVIOUS
<1>3. ASSUME NEW t \in Counted
      PROVE  Uncount(TypeOf[d])[t] = Cardinality(OfType(t)')
  <2>1. num[t] = Cardinality(OfType(t)) /\ DOMAIN num = Counted
    BY DEF SeatInv
  <2>2. CASE t = TypeOf[d]
    <3>1. OfType(t)' = OfType(t) \ {d} /\ d \in OfType(t)
      BY <1>1, <2>2 DEF OfType
    <3>2. Cardinality(OfType(t)') = Cardinality(OfType(t)) - 1
      BY <1>1, <3>1, FS_RemoveElement
    <3>3. Cardinality(Devices) \in Nat /\ Cardinality(Devices) < 65536
      BY FS_CardinalityType DEF FewDevices
    <3>4. Cardinality(OfType(t)) # 0 /\ Cardinality(OfType(t)) < 65536
      BY <1>1, <3>1, <3>3, FS_EmptySet
    <3>5. (Cardinality(OfType(t)) - 1) % 65536 = Cardinality(OfType(t)) - 1
      BY <1>1, <1>2, <3>4
    <3> QED
      BY <2>1, <2>2, <3>2, <3>5 DEF Uncount
  <2>3. CASE t # TypeOf[d]
    BY <1>1, <2>1, <2>3 DEF Uncount
  <2> QED
    BY <2>2, <2>3
<1>4. Uncount(TypeOf[d]) = [t \in Counted |-> Uncount(TypeOf[d])[t]]
  BY DEF Uncount, SeatInv
<1> HIDE DEF Uncount
<1> QED
  BY <1>3, <1>4

(* The capabilities of right numbers are the types of the devices.         *)
LEMMA CapabilitiesOf ==
  ASSUME FewDevices, NEW P \in SUBSET Devices
  PROVE  seat_capabilities([t \in Counted |-> Cardinality({d \in P : TypeOf[d] = t})])
           = {t \in Counted : \E d \in P : TypeOf[d] = t}
<1>1. ASSUME NEW t \in Counted
      PROVE  Cardinality({d \in P : TypeOf[d] = t}) > 0 <=> \E d \in P : TypeOf[d] = t
  <2> DEFINE D == {d \in P : TypeOf[d] = t}
  <2>1. IsFiniteSet(D) /\ Cardinality(D) \in Nat
    <3>1. D \in SUBSET Devices
      OBVIOUS
    <3> QED
      BY <3>1, FS_Subset, FS_CardinalityType DEF FewDevices
  <2>2. Cardinality(D) = 0 <=> D = {}
    BY <2>1, FS_EmptySet
  <2>3. D = {} <=> ~ \E d \in P : TypeOf[d] = t
    OBVIOUS
  <2> HIDE DEF D
  <2>4. Cardinality(D) > 0 <=> Cardinality(D) # 0
    BY <2>1
  <2> QED
    BY <2>2, <2>3, <2>4 DEF D
<1> QED
  BY <1>1 DEF seat_capabilities

(* Only the keyboard that is used is affected by keys.                     *)
LEMMA KeysLeaveSeat ==
  ASSUME SeatInv, UNCHANGED devices,
         \/ seat_keyboard' = seat_keyboard
         \/ \E d \in plugged \cap Keyboards : seat_keyboard' = member[d]
  PROVE  SeatInv'
<1>1. /\ plugged' = plugged /\ num' = num /\ caps' = caps /\ groups' = groups
      /\ member' = member
  BY DEF devices
<1>2. \A t : OfType(t)' = OfType(t)
  BY <1>1 DEF OfType
<1>3. DevicesAgree'
  BY <1>1 DEF SeatInv, DevicesAgree, KeyboardsOf, Keyboards
<1>4. num' = [t \in Counted |-> Cardinality(OfType(t)')]
  BY <1>1, <1>2 DEF SeatInv
<1> QED
  BY <1>1, <1>3, <1>4 DEF SeatInv

(* A key makes the group of its keyboard the keyboard of the seat, or      *)
(* leaves that alone.                                                      *)
LEMMA PressSeat ==
  ASSUME SeatInv, Press
  PROVE  SeatInv'
<1>1. UNCHANGED devices
  BY DEF Press
<1>2. \/ seat_keyboard' = seat_keyboard
      \/ \E d \in plugged \cap Keyboards : seat_keyboard' = member[d]
  BY DEF Press, KeyPressed, handle_command_key_bindings, ToClient
<1> QED
  BY <1>1, <1>2, KeysLeaveSeat

(* The same for a key that is released.                                    *)
LEMMA ReleaseSeat ==
  ASSUME SeatInv, Release
  PROVE  SeatInv'
<1>1. UNCHANGED devices
  BY DEF Release
<1>2. \/ seat_keyboard' = seat_keyboard
      \/ \E d \in plugged \cap Keyboards : seat_keyboard' = member[d]
  BY DEF Release
<1> QED
  BY <1>1, <1>2, KeysLeaveSeat

(* A keyboard that comes joins a listed group or is alone in a new one.    *)
LEMMA GroupAddSeat ==
  ASSUME SeatInv, NEW d \in Keyboards, NEW virtual \in BOOLEAN,
         cg_keyboard_group_add(d, virtual)
  PROVE  /\ groups' \in Seq(Groups) /\ Distinct(groups')
         /\ ToSet(groups) \subseteq ToSet(groups')
         /\ \E g \in ToSet(groups') :
              /\ member' = [member EXCEPT ![d] = g]
              /\ ToSet(groups') \subseteq ToSet(groups) \cup {g}
<1>1. groups \in Seq(Groups) /\ Distinct(groups)
  BY DEF SeatInv
<1>2. CASE Joinable(virtual) # {}
  <2> DEFINE J == Joinable(virtual)
             g == groups[Min(J)]
  <2>1. J \in SUBSET Nat /\ J \subseteq DOMAIN groups
    BY <1>1, LenProperties DEF Joinable
  <2>2. \E m \in J : \A k \in J : m <= k
    <3> HIDE DEF J
    <3> QED
      BY <1>2, <2>1, LeastNat DEF J
  <2>3. Min(J) \in J
    <3> HIDE DEF J
    <3> QED
      BY <2>2 DEF Min
  <2>4. g \in ToSet(groups)
    BY <2>1, <2>3 DEF ToSet
  <2>5. groups' = groups /\ member' = [member EXCEPT ![d] = g]
    BY <1>2 DEF cg_keyboard_group_add
  <2> HIDE DEF g
  <2> QED
    BY <1>1, <2>4, <2>5
<1>3. CASE Joinable(virtual) = {}
  <2>1. PICK g \in Groups \ ToSet(groups) :
          member' = [member EXCEPT ![d] = g] /\ groups' = <<g>> \o groups
    BY <1>3 DEF cg_keyboard_group_add
  <2>2. /\ groups' \in Seq(Groups) /\ Distinct(groups')
        /\ ToSet(groups') = ToSet(groups) \cup {g}
    BY <1>1, <2>1, Prepended
  <2> QED
    BY <2>1, <2>2
<1> QED
  BY <1>2, <1>3

(* Plugging a device of any type.                                          *)
LEMMA PlugSeat ==
  ASSUME FewDevices, "no_keymap" \notin Inputs, DeviceInv, SeatInv, new_input
  PROVE  SeatInv'
<1>1. PICK d \in Devices \ plugged, virtual \in BOOLEAN :
        /\ plugged' = plugged \cup {d}
        /\ num' = Count(TypeOf[d])
        /\ caps' = IF TypeOf[d] \in Counted THEN seat_capabilities(num') ELSE caps
        /\ IF TypeOf[d] = "keyboard"
           THEN cg_keyboard_group_add(d, virtual) /\ seat_keyboard' = d
           ELSE UNCHANGED <<groups, member, seat_keyboard>>
  BY DEF new_input
<1>2. num' = [t \in Counted |-> Cardinality(OfType(t)')]
  BY <1>1, CountsOneMore
<1>3. plugged' \subseteq Devices
  BY <1>1 DEF SeatInv
<1>4. caps' = {t \in Counted : \E e \in plugged' : TypeOf[e] = t}
  <2>1. CASE TypeOf[d] \in Counted
    <3>1. num' = [t \in Counted |-> Cardinality({e \in plugged' : TypeOf[e] = t})]
      BY <1>2 DEF OfType
    <3>2. caps' = seat_capabilities(num')
      BY <1>1, <2>1
    <3> QED
      BY <1>3, <3>1, <3>2, CapabilitiesOf
  <2>2. CASE TypeOf[d] \notin Counted
    BY <1>1, <2>2 DEF SeatInv, DevicesAgree
  <2> QED
    BY <2>1, <2>2
<1>5. CASE TypeOf[d] = "keyboard"
  <2>1. d \in Keyboards
    BY <1>5 DEF Keyboards
  <2>2. cg_keyboard_group_add(d, virtual) /\ seat_keyboard' = d
    BY <1>1, <1>5
  <2>3. /\ groups' \in Seq(Groups) /\ Distinct(groups')
        /\ ToSet(groups) \subseteq ToSet(groups')
        /\ \E g \in ToSet(groups') :
             /\ member' = [member EXCEPT ![d] = g]
             /\ ToSet(groups') \subseteq ToSet(groups) \cup {g}
    BY <2>1, <2>2, GroupAddSeat
  <2>4. PICK g \in ToSet(groups') : /\ member' = [member EXCEPT ![d] = g]
                                    /\ ToSet(groups') \subseteq ToSet(groups) \cup {g}
    BY <2>3
  <2>5. g \in Groups
    BY <2>3, <2>4, EmptyList
  <2>6. /\ member' \in [Devices -> Groups \cup {NULL}] /\ member'[d] = g
        /\ \A e \in Devices \ {d} : member'[e] = member[e]
    BY <2>1, <2>4, <2>5 DEF SeatInv, Keyboards
  <2>7. ASSUME NEW e \in Keyboards
        PROVE  e \in plugged' <=> member'[e] \in ToSet(groups')
    <3>1. CASE e = d
      BY <1>1, <2>6, <3>1
    <3>2. CASE e # d
      <4>1. member'[e] = member[e] /\ (e \in plugged' <=> e \in plugged)
        BY <1>1, <2>6, <3>2 DEF Keyboards
      <4>2. e \in plugged <=> member[e] \in ToSet(groups)
        BY DEF SeatInv, DevicesAgree
      <4>3. e \notin plugged => member[e] = NULL
        BY DEF DeviceInv, Keyboards
      <4>4. NULL \notin ToSet(groups')
        BY <2>3, EmptyList, KeysAssumption
      <4> QED
        BY <4>1, <4>2, <4>3, <4>4, <2>3
    <3> QED
      BY <3>1, <3>2
  <2>8. ASSUME NEW h \in ToSet(groups') PROVE KeyboardsOf(h)' # {}
    <3>1. CASE h = g
      BY <2>1, <2>6, <3>1 DEF KeyboardsOf
    <3>2. CASE h # g
      <4>1. h \in ToSet(groups) /\ KeyboardsOf(h) # {}
        BY <2>4, <2>8, <3>2 DEF SeatInv, DevicesAgree
      <4>2. d \notin KeyboardsOf(h)
        <5>1. member[d] = NULL
          BY <1>1 DEF DeviceInv
        <5>2. h # NULL
          BY <2>3, EmptyList, KeysAssumption
        <5> QED
          BY <5>1, <5>2 DEF KeyboardsOf
      <4> QED
        BY <4>1, <4>2, <2>6 DEF KeyboardsOf, Keyboards
    <3> QED
      BY <3>1, <3>2
  <2>9. seat_keyboard' \in plugged' \cap Keyboards
    BY <1>1, <2>1, <2>2
  <2> QED
    BY <1>2, <1>3, <1>4, <2>3, <2>6, <2>7, <2>8, <2>9 DEF SeatInv, DevicesAgree
<1>6. CASE TypeOf[d] # "keyboard"
  <2>1. UNCHANGED <<groups, member, seat_keyboard>> /\ d \notin Keyboards
    BY <1>1, <1>6 DEF Keyboards
  <2>2. \A e \in Keyboards : e \in plugged' <=> e \in plugged
    BY <1>1, <2>1
  <2>3. /\ \A e \in Keyboards : e \in plugged' <=> member'[e] \in ToSet(groups')
        /\ \A g \in ToSet(groups') : KeyboardsOf(g)' # {}
        /\ seat_keyboard' \in (plugged' \cap Keyboards) \cup ToSet(groups') \cup {NULL}
    BY <2>1, <2>2 DEF SeatInv, DevicesAgree, KeyboardsOf, Keyboards
  <2> QED
    BY <1>2, <1>3, <1>4, <2>1, <2>3 DEF SeatInv, DevicesAgree
<1> QED
  BY <1>5, <1>6

(* A keyboard that leaves takes its group with it when it was the last.    *)
LEMMA UnplugSeat ==
  ASSUME FewDevices, SeatInv, seat_remove_device
  PROVE  SeatInv'
<1>1. PICK d \in plugged :
        /\ plugged' = plugged \ {d}
        /\ num' = Uncount(TypeOf[d])
        /\ caps' = IF TypeOf[d] \in Counted THEN seat_capabilities(num') ELSE caps
        /\ IF TypeOf[d] = "keyboard"
           THEN remove_keyboard(d) /\ member' = [member EXCEPT ![d] = NULL]
           ELSE UNCHANGED <<groups, member, seat_keyboard>>
  BY DEF seat_remove_device
<1>2. num' = [t \in Counted |-> Cardinality(OfType(t)')]
  BY <1>1, CountsOneLess
<1>3. plugged' \subseteq Devices /\ d \in Devices
  BY <1>1 DEF SeatInv
<1>4. caps' = {t \in Counted : \E e \in plugged' : TypeOf[e] = t}
  <2>1. CASE TypeOf[d] \in Counted
    <3>1. num' = [t \in Counted |-> Cardinality({e \in plugged' : TypeOf[e] = t})]
      BY <1>2 DEF OfType
    <3>2. caps' = seat_capabilities(num')
      BY <1>1, <2>1
    <3> QED
      BY <1>3, <3>1, <3>2, CapabilitiesOf
  <2>2. CASE TypeOf[d] \notin Counted
    BY <1>1, <2>2 DEF SeatInv, DevicesAgree
  <2> QED
    BY <2>1, <2>2
<1>5. CASE TypeOf[d] = "keyboard"
  <2> DEFINE g == member[d]
             empty == g # NULL /\ KeyboardsOf(g) = {d}
  <2>1. d \in Keyboards /\ g \in ToSet(groups) /\ g \in Groups /\ g # NULL
    <3>1. d \in Keyboards /\ g \in ToSet(groups)
      BY <1>3, <1>5 DEF SeatInv, DevicesAgree, Keyboards
    <3> QED
      BY <3>1, EmptyList, KeysAssumption DEF SeatInv
  <2>2. /\ member' \in [Devices -> Groups \cup {NULL}] /\ member'[d] = NULL
        /\ \A e \in Devices \ {d} : member'[e] = member[e]
    BY <1>1, <1>3, <1>5 DEF SeatInv
  <2>3. /\ groups' \in Seq(Groups) /\ Distinct(groups')
        /\ ToSet(groups') = IF empty THEN ToSet(groups) \ {g} ELSE ToSet(groups)
    <3>1. groups' = IF empty THEN wl_list_remove(groups, g) ELSE groups
      BY <1>1, <1>5 DEF remove_keyboard
    <3>2. groups \in Seq(Groups) /\ Distinct(groups)
      BY DEF SeatInv
    <3> HIDE DEF empty, g
    <3> QED
      BY <3>1, <3>2, Removed
  <2>4. NULL \notin ToSet(groups')
    BY <2>3, EmptyList, KeysAssumption
  <2>5. ASSUME NEW e \in Keyboards
        PROVE  e \in plugged' <=> member'[e] \in ToSet(groups')
    <3>1. CASE e = d
      BY <1>1, <2>2, <2>4, <3>1
    <3>2. CASE e # d
      <4>1. member'[e] = member[e] /\ (e \in plugged' <=> e \in plugged)
        BY <1>1, <2>2, <3>2 DEF Keyboards
      <4>2. e \in plugged <=> member[e] \in ToSet(groups)
        BY DEF SeatInv, DevicesAgree
      <4>3. empty => member[e] # g
        BY <3>2 DEF KeyboardsOf
      <4> QED
        BY <4>1, <4>2, <4>3, <2>3
    <3> QED
      BY <3>1, <3>2
  <2>6. ASSUME NEW h \in ToSet(groups') PROVE KeyboardsOf(h)' # {}
    <3>1. KeyboardsOf(h) # {} /\ (h = g => KeyboardsOf(h) # {d})
      BY <2>1, <2>3, <2>6 DEF SeatInv, DevicesAgree
    <3>2. \E e \in KeyboardsOf(h) : e # d
      <4>1. h # g => d \notin KeyboardsOf(h)
        BY DEF KeyboardsOf
      <4> QED
        BY <3>1, <4>1
    <3> QED
      BY <3>2, <2>2 DEF KeyboardsOf, Keyboards
  <2>7. seat_keyboard' \in (plugged' \cap Keyboards) \cup ToSet(groups') \cup {NULL}
    <3> DEFINE user == IF g # NULL /\ LastHeld(d, held[d]) # {} THEN g ELSE seat_keyboard
    <3>1. seat_keyboard' = IF user = d \/ (empty /\ user = g) THEN NULL ELSE user
      BY <1>1, <1>5 DEF remove_keyboard
    <3>2. user \in (plugged \cap Keyboards) \cup ToSet(groups) \cup {NULL}
      BY <2>1 DEF SeatInv, DevicesAgree
    <3> HIDE DEF user, empty, g
    <3> QED
      BY <1>1, <2>3, <3>1, <3>2
  <2> QED
    BY <1>2, <1>3, <1>4, <2>2, <2>3, <2>5, <2>6, <2>7 DEF SeatInv, DevicesAgree
<1>6. CASE TypeOf[d] # "keyboard"
  <2>1. UNCHANGED <<groups, member, seat_keyboard>> /\ d \notin Keyboards
    BY <1>1, <1>6 DEF Keyboards
  <2>2. \A e \in Keyboards : e \in plugged' <=> e \in plugged
    BY <1>1, <2>1
  <2>3. /\ \A e \in Keyboards : e \in plugged' <=> member'[e] \in ToSet(groups')
        /\ \A g \in ToSet(groups') : KeyboardsOf(g)' # {}
        /\ seat_keyboard' \in (plugged' \cap Keyboards) \cup ToSet(groups') \cup {NULL}
    BY <2>1, <2>2 DEF SeatInv, DevicesAgree, KeyboardsOf, Keyboards
  <2> QED
    BY <1>2, <1>3, <1>4, <2>1, <2>3 DEF SeatInv, DevicesAgree
<1> QED
  BY <1>5, <1>6

-----------------------------------------------------------------------------
(* Modes exist, also those that a stored binding enters.                   *)
ModeInv ==
  /\ nmodes \in 3 .. MaxModes
  /\ mode \in 0 .. nmodes - 1 /\ default_mode \in 0 .. nmodes - 1
  /\ \A i \in DOMAIN bindings : ModesKnown(bindings[i].act)

(* The input commands, and the settings of every group.                    *)
Configs == {act.config : act \in {a \in Acts : a.type = "input"}}

SettingsInv ==
  /\ configs \in Seq(Configs)
  /\ DOMAIN ident = Groups
  /\ enable \in [Groups -> BOOLEAN] /\ delay \in [Groups -> Nat]
  /\ SettingsFollow

(* The settings that commands give have the type of the field.             *)
LEMMA SettingTypes ==
  ASSUME NEW c \in Seq(Configs), NEW i
  PROVE  Enabled(c, i) \in BOOLEAN /\ Delay(c, i) \in Nat
<1>1. "keybindings" \in Settings /\ "delay" \in Settings /\ DeviceDelay \in Nat
  BY KeysAssumption
<1>2. \A j \in DOMAIN c : c[j] \in Configs
  BY ElementOfSeq, LenProperties
<1>3. \A e \in Configs : /\ e.val["keybindings"] \in BOOLEAN \cup {Unset}
                         /\ e.val["delay"] \in Nat \cup {Unset}
  BY KeysAssumption DEF Configs
<1>4. Enabled(c, i) \in BOOLEAN
  <2> DEFINE v == GroupConfig(c, i).val["keybindings"]
  <2>1. v # Unset => \E j \in DOMAIN c : v = c[j].val["keybindings"]
    BY <1>1, GroupConfigGives
  <2>2. Enabled(c, i) = IF v = Unset THEN TRUE ELSE v
    BY DEF Enabled, GroupSetting
  <2> HIDE DEF v
  <2> QED
    BY <1>2, <1>3, <2>1, <2>2
<1>5. Delay(c, i) \in Nat
  <2> DEFINE v == GroupConfig(c, i).val["delay"]
  <2>1. v # Unset => \E j \in DOMAIN c : v = c[j].val["delay"]
    BY <1>1, GroupConfigGives
  <2>2. Delay(c, i) = IF v = Unset THEN DeviceDelay ELSE v
    BY DEF Delay, GroupSetting
  <2> HIDE DEF v
  <2> QED
    BY <1>1, <1>2, <1>3, <2>1, <2>2
<1> QED
  BY <1>4, <1>5

(* A new input command brings the settings of every listed group up to     *)
(* date, also where it leaves enable_keybindings alone.                    *)
LEMMA ConfigureKeepsSettings ==
  ASSUME SettingsInv, groups \in Seq(Groups), NEW c \in Configs,
         keybinding_configure_input(c), UNCHANGED <<groups, ident>>
  PROVE  SettingsInv'
<1>1. configs' = <<c>> \o configs /\ configs \in Seq(Configs)
  BY DEF keybinding_configure_input, SettingsInv
<1>2. configs' \in Seq(Configs)
  <2>1. <<c>> \in Seq(Configs)
    OBVIOUS
  <2> DEFINE one == <<c>>
  <2> HIDE DEF one
  <2> QED
    BY <1>1, <2>1, ConcatProperties DEF one
<1>3. cg_input_manager_configure(configs')
  BY DEF keybinding_configure_input
<1>4. \A g : Enabled(configs', ident[g]) \in BOOLEAN /\ Delay(configs', ident[g]) \in Nat
  BY <1>2, SettingTypes
<1>5. enable \in [Groups -> BOOLEAN] /\ delay \in [Groups -> Nat]
  BY DEF SettingsInv
<1>6. /\ enable' \in [Groups -> BOOLEAN] /\ delay' \in [Groups -> Nat]
  BY <1>3, <1>4, <1>5 DEF cg_input_manager_configure
<1>7. ASSUME NEW g \in ToSet(groups)
      PROVE  /\ enable'[g] = Enabled(configs', ident[g])
             /\ delay'[g] = Delay(configs', ident[g])
  <2> DEFINE v == GroupConfig(configs', ident[g]).val["keybindings"]
  <2>1. g \in Groups
    BY <1>7, EmptyList
  <2>2. delay'[g] = Delay(configs', ident[g])
    BY <1>3, <2>1 DEF cg_input_manager_configure
  <2>3. CASE v # Unset
    BY <1>3, <2>1, <2>2, <2>3 DEF cg_input_manager_configure
  <2>4. CASE v = Unset
    <3>1. enable'[g] = enable[g]
      BY <1>3, <2>1, <2>4 DEF cg_input_manager_configure
    <3>2. GroupConfig(configs, ident[g]).val["keybindings"] = Unset
      BY <1>1, <2>4, StaysGiven, KeysAssumption
    <3>3. enable[g] = Enabled(configs, ident[g])
      BY DEF SettingsInv, SettingsFollow
    <3> QED
      BY <2>2, <2>4, <3>1, <3>2, <3>3 DEF Enabled, GroupSetting
  <2> QED
    BY <2>3, <2>4
<1>8. SettingsFollow'
  <2>1. groups' = groups /\ ident' = ident
    OBVIOUS
  <2> QED
    BY <1>7, <2>1 DEF SettingsFollow
<1> QED
  BY <1>2, <1>6, <1>8 DEF SettingsInv

(* An action enters a mode that exists, and keeps the settings.            *)
LEMMA ActionKeeps ==
  ASSUME SettingsInv, ModeInv, groups \in Seq(Groups), NEW act \in Acts, ModesKnown(act),
         NEW m \in 0 .. nmodes - 1, run_action(act, m),
         UNCHANGED <<groups, ident, bindings, nmodes>>
  PROVE  SettingsInv' /\ ModeInv'
<1>1. /\ mode' = IF act.type \in {"mode", "default"} THEN act.to ELSE m
      /\ default_mode' = IF act.type = "default" THEN act.to ELSE default_mode
      /\ IF act.type = "input" THEN keybinding_configure_input(act.config)
         ELSE UNCHANGED settings
  BY DEF run_action
<1>2. act.type \in {"mode", "default"} => act.to \in 0 .. nmodes - 1
  BY KeysAssumption DEF ModesKnown, ModeInv
<1>3. /\ mode' \in 0 .. nmodes - 1 /\ default_mode' \in 0 .. nmodes - 1
  BY <1>1, <1>2 DEF ModeInv
<1>4. ModeInv'
  <2>1. nmodes' = nmodes /\ bindings' = bindings
    OBVIOUS
  <2> QED
    BY <1>3, <2>1 DEF ModeInv, ModesKnown
<1>5. CASE act.type = "input"
  BY <1>1, <1>4, <1>5, ConfigureKeepsSettings DEF Configs
<1>6. CASE act.type # "input"
  BY <1>1, <1>4, <1>6 DEF SettingsInv, SettingsFollow, settings
<1> QED
  BY <1>5, <1>6

(* What does not touch settings keeps them.                                *)
LEMMA SameSettings ==
  ASSUME SettingsInv, UNCHANGED settings, UNCHANGED <<groups, ident>>
  PROVE  SettingsInv'
BY DEF SettingsInv, SettingsFollow, settings

(* A pressed key runs its binding, which was stored with a known mode, or  *)
(* leaves the mode that was entered for one key.                           *)
LEMMA PressSettings ==
  ASSUME KeysInv, SettingsInv, ModeInv, groups \in Seq(Groups), Press
  PROVE  SettingsInv' /\ ModeInv'
<1>1. /\ nmodes' = nmodes /\ bindings' = bindings /\ groups' = groups /\ ident' = ident
  BY DEF Press, lists, devices
<1>2. PICK d \in plugged \cap Keyboards, key \in Keysyms :
        \/ UNCHANGED <<mode, default_mode>> /\ UNCHANGED settings
        \/ KeyPressed(member[d], key)
  BY DEF Press
<1>3. \/ UNCHANGED <<mode, default_mode>> /\ UNCHANGED settings
      \/ mode' = default_mode /\ default_mode' = default_mode /\ UNCHANGED settings
      \/ LET i == find_keybinding(key, mode)
         IN  i # 0 /\ run_action(bindings[i].act, default_mode)
  BY <1>2 DEF KeyPressed, handle_command_key_bindings, ToClient
<1>4. CASE UNCHANGED settings /\ mode' \in {mode, default_mode} /\ default_mode' = default_mode
  BY <1>1, <1>4, SameSettings DEF ModeInv, ModesKnown
<1>5. CASE LET i == find_keybinding(key, mode)
           IN  i # 0 /\ run_action(bindings[i].act, default_mode)
  <2> DEFINE i == find_keybinding(key, mode)
  <2>1. i \in DOMAIN bindings
    BY <1>5, FoundIsFor DEF KeysInv, ArrayInv
  <2>2. bindings[i] \in Bindings
    BY <2>1, ElementOfSeq, LenProperties DEF KeysInv, ArrayInv
  <2>3. bindings[i].act \in Acts /\ ModesKnown(bindings[i].act)
    BY <2>1, <2>2 DEF Acts, ModeInv
  <2>4. default_mode \in 0 .. nmodes - 1
    BY DEF ModeInv
  <2>5. run_action(bindings[i].act, default_mode)
    BY <1>5
  <2> HIDE DEF i
  <2> QED
    BY <1>1, <2>3, <2>4, <2>5, ActionKeeps
<1> QED
  BY <1>3, <1>4, <1>5

(* The timer runs a binding of the array or nothing that can be described. *)
LEMMA RepeatSettings ==
  ASSUME KeysInv, SettingsInv, ModeInv, groups \in Seq(Groups), handle_keyboard_repeat
  PROVE  SettingsInv' /\ ModeInv'
<1>1. /\ nmodes' = nmodes /\ bindings' = bindings /\ groups' = groups /\ ident' = ident
  BY DEF handle_keyboard_repeat, lists, devices
<1>2. PICK g \in ToSet(groups) :
        /\ repeat[g] # NULL
        /\ IF repeat[g].array # capacity
           THEN UNCHANGED <<mode, default_mode>> /\ UNCHANGED settings
           ELSE run_action(bindings[repeat[g].index].act, mode)
  BY DEF handle_keyboard_repeat
<1>3. CASE repeat[g].array # capacity
  BY <1>1, <1>2, <1>3, SameSettings DEF ModeInv, ModesKnown
<1>4. CASE repeat[g].array = capacity
  <2> DEFINE i == repeat[g].index
  <2>1. g \in Groups
    BY EmptyList
  <2>2. i \in DOMAIN bindings
    BY <1>2, <1>4, <2>1 DEF KeysInv, RepeatInv, Repeats
  <2>3. bindings[i] \in Bindings
    BY <2>2, ElementOfSeq, LenProperties DEF KeysInv, ArrayInv
  <2>4. bindings[i].act \in Acts /\ ModesKnown(bindings[i].act)
    BY <2>2, <2>3 DEF Acts, ModeInv
  <2>5. mode \in 0 .. nmodes - 1 /\ run_action(bindings[i].act, mode)
    BY <1>2, <1>4 DEF ModeInv
  <2> HIDE DEF i
  <2> QED
    BY <1>1, <2>4, <2>5, ActionKeeps
<1> QED
  BY <1>3, <1>4

(* A new group starts with the settings that the commands so far give it.  *)
LEMMA PlugSettings ==
  ASSUME SettingsInv, ModeInv, groups \in Seq(Groups), new_input
  PROVE  SettingsInv' /\ ModeInv'
<1>1. PICK d \in Devices \ plugged, virtual \in BOOLEAN :
        \/ cg_keyboard_group_add(d, virtual)
        \/ UNCHANGED <<groups, member, ident, enable, delay>>
  BY DEF new_input
<1>2. /\ ModeInv' /\ configs' = configs
  BY DEF new_input, ModeInv, ModesKnown, lists
<1>3. CASE UNCHANGED <<groups, ident, enable, delay>>
  BY <1>2, <1>3, SameSettings DEF settings
<1>4. ASSUME NEW g \in Groups \ ToSet(groups), groups' = <<g>> \o groups,
             ident' = [ident EXCEPT ![g] = IdentOf[d]], ConfigureNewGroup(d, g)
      PROVE  SettingsInv'
  <2>1. configs \in Seq(Configs) /\ enable \in [Groups -> BOOLEAN] /\ delay \in [Groups -> Nat]
    BY DEF SettingsInv
  <2>2. Enabled(configs, IdentOf[d]) \in BOOLEAN /\ Delay(configs, IdentOf[d]) \in Nat
    BY <2>1, SettingTypes
  <2>3. /\ enable' = [enable EXCEPT ![g] = Enabled(configs, IdentOf[d])]
        /\ delay' = [delay EXCEPT ![g] = Delay(configs, IdentOf[d])]
    BY <1>4 DEF ConfigureNewGroup
  <2>4. enable' \in [Groups -> BOOLEAN] /\ delay' \in [Groups -> Nat]
    BY <2>1, <2>2, <2>3
  <2>5. ToSet(groups') = ToSet(groups) \cup {g} /\ ToSet(groups) \subseteq Groups
    <3>1. <<g>> \in Seq(Groups) /\ ToSet(<<g>>) = {g}
      BY DEF ToSet
    <3> DEFINE one == <<g>>
    <3>2. groups' = one \o groups /\ one \in Seq(Groups) /\ ToSet(one) = {g}
      BY <1>4, <3>1
    <3> HIDE DEF one
    <3> QED
      BY <3>2, Concatenated, EmptyList
  <2>6. ASSUME NEW h \in ToSet(groups')
        PROVE  enable'[h] = Enabled(configs, ident'[h]) /\ delay'[h] = Delay(configs, ident'[h])
    <3>1. CASE h = g
      <4>1. ident'[g] = IdentOf[d]
        BY <1>4 DEF SettingsInv
      <4> QED
        BY <3>1, <4>1, <2>1, <2>3
    <3>2. CASE h # g
      <4>1. h \in ToSet(groups) /\ h \in Groups
        BY <2>5, <2>6, <3>2
      <4>2. enable'[h] = enable[h] /\ delay'[h] = delay[h] /\ ident'[h] = ident[h]
        BY <1>4, <2>1, <2>3, <3>2, <4>1
      <4> QED
        BY <4>1, <4>2 DEF SettingsInv, SettingsFollow
    <3> QED
      BY <3>1, <3>2
  <2> QED
    BY <1>2, <1>4, <2>1, <2>4, <2>6 DEF SettingsInv, SettingsFollow
<1> QED
  BY <1>1, <1>2, <1>3, <1>4 DEF cg_keyboard_group_add
(* The group of the last keyboard is forgotten with its settings.          *)
LEMMA UnplugSettings ==
  ASSUME SettingsInv, ModeInv, groups \in Seq(Groups), Distinct(groups),
         seat_remove_device
  PROVE  SettingsInv' /\ ModeInv'
<1>1. ToSet(groups') \subseteq ToSet(groups)
  <2>1. groups' = groups \/ \E g : groups' = wl_list_remove(groups, g)
    BY DEF seat_remove_device, remove_keyboard
  <2> QED
    BY <2>1, Removed
<1>2. UNCHANGED settings /\ ident' = ident
  BY DEF seat_remove_device
<1>3. ModeInv'
  BY DEF seat_remove_device, ModeInv, ModesKnown, lists
<1> QED
  BY <1>1, <1>2, <1>3 DEF SettingsInv, SettingsFollow, settings

(* A binding is stored with the modes that its action enters, and modes    *)
(* are only added.                                                         *)
LEMMA DefineSettings ==
  ASSUME ArrayInv, ArrayInv', SettingsInv, ModeInv, definekey
  PROVE  SettingsInv' /\ ModeInv'
<1>1. PICK b \in Bindings : ModesKnown(b.act) /\ bindings' = Stored(b)
  BY DEF definekey, keybinding_list_push
<1>2. nmodes' = nmodes /\ mode' = mode /\ default_mode' = default_mode
  BY DEF definekey
<1>3. bindings \in Seq(Bindings) /\ DOMAIN bindings = 1 .. Len(bindings)
  BY LenProperties DEF ArrayInv
<1>4. ASSUME NEW i \in DOMAIN bindings'
      PROVE  bindings'[i] = b \/ (i \in DOMAIN bindings /\ bindings'[i] = bindings[i])
  <2> DEFINE k == find_keybinding(b.key, b.mode)
  <2>1. CASE k # 0
    <3>1. bindings' = [bindings EXCEPT ![k] = b]
      BY <1>1, <2>1 DEF Stored
    <3>2. k \in DOMAIN bindings
      BY <1>3, <2>1, FoundIsFor
    <3> HIDE DEF k
    <3> QED
      BY <3>1, <3>2, <1>4
  <2>2. CASE k = 0
    <3>1. bindings' = Append(bindings, b)
      BY <1>1, <2>2 DEF Stored
    <3>2. /\ DOMAIN bindings' = 1 .. Len(bindings) + 1
          /\ \A j \in 1 .. Len(bindings) : bindings'[j] = bindings[j]
          /\ bindings'[Len(bindings) + 1] = b
      BY <3>1, <1>3, AppendProperties
    <3>3. i = Len(bindings) + 1 \/ i \in 1 .. Len(bindings)
      BY <1>4, <3>2, <1>3, LenProperties
    <3> QED
      BY <1>3, <3>2, <3>3
  <2> QED
    BY <2>1, <2>2
<1>5. ModeInv'
  <2>1. \A i \in DOMAIN bindings' : ModesKnown(bindings'[i].act)
    BY <1>1, <1>4 DEF ModeInv
  <2> QED
    BY <1>2, <2>1 DEF ModeInv, ModesKnown
<1>6. SettingsInv'
  BY SameSettings DEF definekey, devices
<1> QED
  BY <1>5, <1>6

(* A new mode leaves the modes that are known known.                       *)
LEMMA DefinemodeSettings ==
  ASSUME ArrayInv, SettingsInv, ModeInv, definemode
  PROVE  SettingsInv' /\ ModeInv'
<1>1. /\ nmodes < MaxModes /\ nmodes' = nmodes + 1
      /\ mode' = mode /\ default_mode' = default_mode /\ bindings' = bindings
  BY DEF definemode, lists
<1>2. /\ nmodes \in 3 .. MaxModes /\ MaxModes \in Nat
      /\ mode \in 0 .. nmodes - 1 /\ default_mode \in 0 .. nmodes - 1
  BY KeysAssumption DEF ModeInv
<1>3. \A act \in Acts : ModesKnown(act) => ModesKnown(act)'
  BY <1>1, <1>2, KeysAssumption DEF ModesKnown
<1>4. \A i \in DOMAIN bindings : bindings[i].act \in Acts
  BY ElementOfSeq, LenProperties DEF ArrayInv, Acts
<1>5. (\A i \in DOMAIN bindings : ModesKnown(bindings[i].act))'
  <2>1. \A i \in DOMAIN bindings : ModesKnown(bindings[i].act)
    BY DEF ModeInv
  <2> QED
    BY <1>1, <1>3, <1>4, <2>1 DEF ModesKnown
<1>6. ModeInv'
  <2>1. /\ nmodes' \in 3 .. MaxModes
        /\ mode' \in 0 .. nmodes' - 1 /\ default_mode' \in 0 .. nmodes' - 1
    BY <1>1, <1>2
  <2> QED
    BY <1>5, <2>1 DEF ModeInv
<1>7. SettingsInv'
  BY SameSettings DEF definemode, devices
<1> QED
  BY <1>6, <1>7

(* The whole invariant: modes, settings, devices, bindings and repeats.    *)
AllInv == KeysInv /\ SeatInv /\ ModeInv /\ SettingsInv /\ ub \in BOOLEAN

(* At the start there is no device, command or binding.                    *)
LEMMA AllInitially ==
  ASSUME Init
  PROVE  AllInv
<1>1. KeysInv
  BY KeysInitially
<1>2. ToSet(groups) = {} /\ groups \in Seq(Groups) /\ Distinct(groups)
  BY DEF Init, ToSet, Distinct
<1>3. SeatInv
  <2>1. /\ plugged = {} /\ caps = {} /\ seat_keyboard = NULL
        /\ member = [d \in Devices |-> NULL] /\ num = [t \in Counted |-> 0]
    BY DEF Init
  <2>2. \A t : OfType(t) = {}
    BY <2>1 DEF OfType
  <2>3. num = [t \in Counted |-> Cardinality(OfType(t))]
    BY <2>1, <2>2, FS_EmptySet
  <2>4. DevicesAgree
    BY <1>2, <2>1 DEF DevicesAgree, Keyboards
  <2> QED
    BY <1>2, <2>1, <2>3, <2>4 DEF SeatInv
<1>4. ModeInv
  BY KeysAssumption DEF Init, ModeInv
<1>5. SettingsInv
  <2>1. configs = <<>> /\ <<>> \in Seq(Configs)
    BY DEF Init
  <2>2. /\ DOMAIN ident = Groups /\ enable \in [Groups -> BOOLEAN]
        /\ delay \in [Groups -> Nat]
    BY KeysAssumption DEF Init
  <2>3. SettingsFollow
    BY <1>2 DEF SettingsFollow
  <2> QED
    BY <2>1, <2>2, <2>3 DEF SettingsInv
<1> QED
  BY <1>1, <1>3, <1>4, <1>5 DEF AllInv, Init

(* Every step of the compositor keeps it.                                  *)
LEMMA AllInductive ==
  ASSUME FewDevices, "no_keymap" \notin Inputs, AllInv, [Next]_vars
  PROVE  AllInv'
<1>1. /\ KeysInv /\ SeatInv /\ ModeInv /\ SettingsInv /\ ub \in BOOLEAN
      /\ ArrayInv /\ DeviceInv
      /\ groups \in Seq(Groups) /\ Distinct(groups)
  BY DEF AllInv, SeatInv, KeysInv
<1>2. KeysInv' /\ ArrayInv'
  BY <1>1, KeysInductive DEF KeysInv
<1>3. ub' \in BOOLEAN
  BY <1>1 DEF Next, vars, Press, Release, handle_keyboard_repeat, new_input,
              seat_remove_device, definekey, definemode, parse_rc_line
<1>4. ASSUME SeatInv', ModeInv', SettingsInv' PROVE AllInv'
  BY <1>2, <1>3, <1>4 DEF AllInv
<1>5. CASE Press
  BY <1>1, <1>4, <1>5, PressSeat, PressSettings
<1>6. CASE Release
  <2>1. ModeInv' /\ SettingsInv'
    BY <1>1, <1>6, SameSettings DEF Release, ModeInv, ModesKnown, lists, devices
  <2> QED
    BY <1>1, <1>4, <1>6, <2>1, ReleaseSeat
<1>7. CASE handle_keyboard_repeat
  <2>1. UNCHANGED devices /\ seat_keyboard' = seat_keyboard
    BY <1>7 DEF handle_keyboard_repeat
  <2> QED
    BY <1>1, <1>4, <1>7, <2>1, KeysLeaveSeat, RepeatSettings
<1>8. CASE new_input
  BY <1>1, <1>4, <1>8, PlugSeat, PlugSettings
<1>9. CASE seat_remove_device
  BY <1>1, <1>4, <1>9, UnplugSeat, UnplugSettings
<1>10. CASE definekey
  <2>1. UNCHANGED devices /\ seat_keyboard' = seat_keyboard
    BY <1>10 DEF definekey
  <2> QED
    BY <1>1, <1>2, <1>4, <1>10, <2>1, KeysLeaveSeat, DefineSettings
<1>11. CASE definemode
  <2>1. UNCHANGED devices /\ seat_keyboard' = seat_keyboard
    BY <1>11 DEF definemode
  <2> QED
    BY <1>1, <1>4, <1>11, <2>1, KeysLeaveSeat, DefinemodeSettings
<1>12. CASE parse_rc_line
  <2>1. /\ UNCHANGED devices /\ seat_keyboard' = seat_keyboard
        /\ UNCHANGED <<groups, ident, bindings, nmodes>>
    BY <1>12 DEF parse_rc_line, devices, lists
  <2>2. PICK act \in Lines : ModesKnown(act) /\ run_action(act, mode)
    BY <1>12 DEF parse_rc_line
  <2>3. act \in Acts /\ mode \in 0 .. nmodes - 1
    BY <1>1 DEF Acts, ModeInv
  <2> QED
    BY <1>1, <1>4, <2>1, <2>2, <2>3, KeysLeaveSeat, ActionKeeps
<1>13. CASE UNCHANGED vars
  <2>1. UNCHANGED devices /\ seat_keyboard' = seat_keyboard
    BY <1>13 DEF vars, devices
  <2>2. ModeInv' /\ SettingsInv'
    BY <1>1, <1>13, SameSettings DEF vars, settings, ModeInv, ModesKnown
  <2> QED
    BY <1>1, <1>4, <2>1, <2>2, KeysLeaveSeat
<1> QED
  BY <1>5, <1>6, <1>7, <1>8, <1>9, <1>10, <1>11, <1>12, <1>13 DEF Next

-----------------------------------------------------------------------------
(* However keyboards are plugged, grouped, used and unplugged, a plugged   *)
(* keyboard is in one group, no group of the seat is empty, the seat       *)
(* announces the types of its devices, and its keyboard is not one that    *)
(* was unplugged or a group that was freed.                                *)
THEOREM DevicesStayKnown ==
  ASSUME FewDevices, "no_keymap" \notin Inputs
  PROVE  Spec => []DevicesAgree
<1>1. AllInv => DevicesAgree
  BY DEF AllInv, SeatInv
<1>2. Init => AllInv
  BY AllInitially
<1>3. AllInv /\ [Next]_vars => AllInv'
  BY AllInductive
<1> QED
  BY <1>1, <1>2, <1>3, PTL DEF Spec

(* Whatever input commands are given, and whenever a keyboard is plugged,  *)
(* the settings of each group are those all the commands so far give it.   *)
THEOREM SettingsAreUpToDate ==
  ASSUME FewDevices, "no_keymap" \notin Inputs
  PROVE  Spec => []SettingsFollow
<1>1. AllInv => SettingsFollow
  BY DEF AllInv, SettingsInv
<1>2. Init => AllInv
  BY AllInitially
<1>3. AllInv /\ [Next]_vars => AllInv'
  BY AllInductive
<1> QED
  BY <1>1, <1>2, <1>3, PTL DEF Spec

(* The seat's mode and default mode always exist, no counter of devices    *)
(* wraps, and every variable has its type.                                 *)
THEOREM TypeCorrect ==
  ASSUME FewDevices, "no_keymap" \notin Inputs
  PROVE  Spec => []TypeOK
<1>1. AllInv => TypeOK
  <2> SUFFICES ASSUME AllInv PROVE TypeOK
    OBVIOUS
  <2>1. ArrayInv /\ DeviceInv /\ SeatInv /\ ModeInv /\ SettingsInv /\ ub \in BOOLEAN
    BY DEF AllInv, KeysInv
  <2>2. num \in [Counted -> 0 .. Cardinality(Devices)]
    <3>1. \A t \in Counted : OfType(t) \in SUBSET Devices
      BY <2>1 DEF OfType, SeatInv
    <3>2. \A t \in Counted : Cardinality(OfType(t)) <= Cardinality(Devices)
      BY <3>1, FS_Subset DEF FewDevices
    <3>3. \A t \in Counted : Cardinality(OfType(t)) \in Nat
      BY <3>1, FS_Subset, FS_CardinalityType DEF FewDevices
    <3>4. Cardinality(Devices) \in Nat
      BY FS_CardinalityType DEF FewDevices
    <3>5. \A t \in Counted : Cardinality(OfType(t)) \in 0 .. Cardinality(Devices)
      BY <3>2, <3>3, <3>4
    <3> QED
      BY <2>1, <3>5 DEF SeatInv
  <2>3. caps \subseteq Counted
    BY <2>1 DEF SeatInv, DevicesAgree
  <2>4. seat_keyboard \in Keyboards \cup Groups \cup {NULL}
    <3>1. ToSet(groups) \subseteq Groups
      BY <2>1, EmptyList DEF SeatInv
    <3> QED
      BY <2>1, <3>1 DEF SeatInv, DevicesAgree
  <2> QED
    BY <2>1, <2>2, <2>3, <2>4 DEF TypeOK, ArrayInv, DeviceInv, SeatInv, ModeInv, SettingsInv
<1>2. Init => AllInv
  BY AllInitially
<1>3. AllInv /\ [Next]_vars => AllInv'
  BY AllInductive
<1> QED
  BY <1>1, <1>2, <1>3, PTL DEF Spec
=============================================================================
