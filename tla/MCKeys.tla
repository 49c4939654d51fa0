------------------------------- MODULE MCKeys -------------------------------
(* Two keyboards of different make and a pointer; a key and a modifier;    *)
(* bindings that enter a mode, change the default mode, and switch key     *)
(* bindings off; commands that switch them off for one make of keyboards   *)
(* and the repeat off for all.                                             *)
EXTENDS Keys, TLC

CONSTANTS k1, k2, p, a, Shift

MCSettings == {"keybindings", "delay"}
MCTypeOf == k1 :> "keyboard" @@ k2 :> "keyboard" @@ p :> "pointer"
MCIdentOf == k1 :> "A" @@ k2 :> "B" @@ p :> "B"

Off == [type |-> "input", config |-> parse_input_config("B", "keybindings", FALSE)]
Never == [type |-> "input", config |-> parse_input_config("keyboard", "delay", 0)]

MCBindings ==
  {[key |-> a, mode |-> 0, act |-> [type |-> "mode", to |-> 1]],
   [key |-> a, mode |-> 1, act |-> [type |-> "default", to |-> 1]],
   [key |-> a, mode |-> 0, act |-> Off]}

MCLines == {Off, Never}

(* Settings of a touchpad, for the order in which commands apply.          *)
MCTouchpadSettings == {"tap", "events"}
MCDeviceSettings == MCSettings \cup MCTouchpadSettings
MCDeviceLines ==
  {[type |-> "input", config |-> parse_input_config(i, s, v)] :
     i \in {"B", "*"}, s \in MCTouchpadSettings, v \in {"on", "off"}}

Symmetry == Permutations(Groups)
=============================================================================
