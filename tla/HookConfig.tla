----------------------------- MODULE HookConfig -----------------------------
(***************************************************************************)
(* The configuration of the hook (config.rs): what from_env makes of the    *)
(* environment variables.  Operators only; PayloadCapture uses them.        *)
(*                                                                         *)
(* The raw value of a variable is abstracted to what decides the result: a  *)
(* record whose kind is "absent", "not_unicode" or "text"; a text that a    *)
(* number is wanted of carries the number it spells (or spells none), and   *)
(* the list of topics carries its items.                                    *)
(***************************************************************************)
EXTENDS Integers

CONSTANTS
  UsizeLimit,        \* 2^w: numbers from here on do not parse
  DefaultArrayLen,   \* 12 in the code
  DefaultBufferSize  \* 1024 in the code

ASSUME DefaultsAreNumbers ==
  /\ UsizeLimit \in Nat
  /\ DefaultArrayLen \in 0 .. UsizeLimit - 1
  /\ DefaultBufferSize \in 0 .. UsizeLimit - 1

NotANumber == -1
Unset == [kind : {"absent", "not_unicode"}]

\* std::env::var: a variable that is absent or not unicode gives None.
string_env_var(raw) == raw.kind = "text"

\* Mutated: any number is taken, whatever its sign and size.
usize_env_var_unchecked(raw, default) ==
  IF string_env_var(raw) THEN raw.number ELSE default

\* s.trim().parse::<usize>(), and the default of from_env for None: not set,
\* not a number, negative or too large.
usize_env_var(raw, default) ==
  IF string_env_var(raw) /\ raw.number \in 0 .. UsizeLimit - 1
    THEN raw.number
    ELSE default

\* topic.trim(): an item is a topic, with or without white space around it.
trim(item) == item.topic

\* ModalityRosHookConfig::from_env; the timeout and the run id have no influence
\* on what is captured.
from_env(env) ==
  [max_array_len  |-> usize_env_var(env.max_array_len, DefaultArrayLen),
   buffer_size    |-> usize_env_var(env.buffer_size, DefaultBufferSize),
   ignored_topics |-> IF string_env_var(env.ignored_topics)
                        THEN {trim(item) : item \in env.ignored_topics.items}
                        ELSE {"/parameter_events"}]
=============================================================================
