---------------------------- MODULE InputConfig ----------------------------
(***************************************************************************)
(* How the `input` commands given so far become the settings of a device   *)
(* and of a keyboard group.  A command names one device, a type of devices *)
(* or all of them, and gives one setting.  server->input_config holds the  *)
(* commands, the newest first, and both readers walk it from its head.     *)
(***************************************************************************)
EXTENDS Integers, Sequences, SequencesExt

CONSTANTS
  Settings,    \* the settings a command can give
  Unset        \* INT_MIN, FLT_MIN or -1 in struct cg_input_config

All == "*"

empty_input_config == [ident |-> Unset, val |-> [s \in Settings |-> Unset]]

(* `input <ident> <setting> <value>`                                       *)
parse_input_config(i, s, v) ==
  [ident |-> i, val |-> [empty_input_config.val EXCEPT ![s] = v]]

(* The first one has precedence.                                           *)
input_manager_merge_input_configs(c1, c2) ==
  [ident |-> IF c1.ident = Unset THEN c2.ident ELSE c1.ident,
   val   |-> [s \in Settings |-> IF c1.val[s] = Unset THEN c2.val[s] ELSE c1.val[s]]]

Matches(c, ident, type) == c.ident \in {ident, All, type}

(* What apply_config_to_device makes of setting s, which is v so far:      *)
(* "events" goes back to the default with every command that does not give *)
(* it.                                                                     *)
apply_config_to_device(c, s, v, default) ==
  IF c.val[s] # Unset THEN c.val[s] ELSE IF s = "events" THEN default ELSE v

(* Every matching command is applied, so the last of the list, the oldest, *)
(* has the last word.                                                      *)
cg_input_configure_libinput_device(configs, ident, type, s, default) ==
  FoldLeft(LAMBDA v, c : IF Matches(c, ident, type)
                         THEN apply_config_to_device(c, s, v, default) ELSE v,
           default, configs)

(* cg_input_manager_configure_keyboard_group: an older command goes before *)
(* what was merged so far, unless both are for this very keyboard.         *)
Prefers(tot, c, ident) == tot.ident \in {Unset, All} \/ c.ident # ident

Merged(tot, c, ident) ==
  IF ~Matches(c, ident, "keyboard") THEN tot
  ELSE IF Prefers(tot, c, ident) THEN input_manager_merge_input_configs(c, tot)
  ELSE input_manager_merge_input_configs(tot, c)

GroupConfig(configs, ident) ==
  LET First[n \in 0 .. Len(configs)] ==   \* what the first n come to
        IF n = 0 THEN empty_input_config
        ELSE Merged(First[n - 1], configs[n], ident)
  IN  First[Len(configs)]

GroupSetting(configs, ident, s, default) ==
  LET v == GroupConfig(configs, ident).val[s] IN IF v = Unset THEN default ELSE v
=============================================================================
