---------------------------- MODULE Configuration ----------------------------
(***************************************************************************)
(* The two ways to a client configuration (config.rs): the environment,    *)
(* and the builder with its setters.  Each spells out the defaults itself. *)
(***************************************************************************)
EXTENDS Naturals

Subjects == {"tenant", "workspace", "app", "workflow", "agent", "toolset"}
Texts == Subjects \cup {"journal_dir"}
Numbers == {"connect_timeout", "read_timeout", "retry_max_attempts",
            "retry_initial_delay", "retry_multiplier", "retry_max_delay"}
Flags == {"retry_enabled", "journal_enabled"}
Required == {"base_url", "api_key"}
Options == Texts \cup Numbers \cup Flags

(* A variable is unset, or holds a text: one that parses as its number,    *)
(* one that spells false in any case, or another.  A variable that is not  *)
(* Unicode counts as unset.                                                *)
Settings == {"unset", "number", "false", "other"}
Environment == [Required \cup Options -> Settings]

Given == 1           \* the number a variable or a setter gives
None == "none"
ConfigError == "error"

(* The builder: its defaults and its setters.                              *)
builder ==
    [option \in Options |->
        CASE option \in Texts -> None
          [] option \in Flags -> TRUE
          [] option = "connect_timeout" -> 2000
          [] option = "read_timeout" -> 5000
          [] option = "retry_max_attempts" -> 5
          [] option = "retry_initial_delay" -> 500
          [] option = "retry_multiplier" -> 2
          [] option = "retry_max_delay" -> 30000]

set(config, option, value) == [config EXCEPT ![option] = value]

(* The environment.                                                        *)
env_opt(env, option) == IF env[option] = "unset" THEN None ELSE env[option]

(* Mutant: what does not parse becomes zero.                               *)
zero_if_unparsable(env, option, default) ==
    CASE env[option] = "unset" -> default
      [] env[option] = "number" -> Given
      [] OTHER -> 0

env_number(env, option, default) == IF env[option] = "number" THEN Given ELSE default
env_flag(env, option) == env_opt(env, option) # "false"

from_env(env) ==
    IF \E option \in Required : env[option] = "unset" THEN ConfigError
    ELSE [option \in Options |->
             CASE option \in Texts -> env_opt(env, option)
               [] option \in Flags -> env_flag(env, option)
               [] option = "connect_timeout" -> env_number(env, option, 2000)
               [] option = "read_timeout" -> env_number(env, option, 5000)
               [] option = "retry_max_attempts" -> env_number(env, option, 5)
               [] option = "retry_initial_delay" -> env_number(env, option, 500)
               [] option = "retry_multiplier" -> env_number(env, option, 2)
               [] option = "retry_max_delay" -> env_number(env, option, 30000)]

-----------------------------------------------------------------------------
(* What a caller of the builder would have written for an environment: one *)
(* setter for each variable that says something, nothing for the others.   *)
Says(env, option) ==
    CASE option \in Texts -> env[option] # "unset"
      [] option \in Flags -> env[option] = "false"
      [] OTHER -> env[option] = "number"

Setting(env, option) ==
    CASE option \in Texts -> env[option]
      [] option \in Flags -> FALSE
      [] OTHER -> Given

SetAll(env, config, options) ==
    LET Apply[left \in SUBSET options] ==
            IF left = {} THEN config
            ELSE LET option == CHOOSE o \in left : TRUE
                 IN  set(Apply[left \ {option}], option, Setting(env, option))
    IN  Apply[options]

(* The environment is a third spelling of the builder: with the two        *)
(* required variables set it configures the client exactly as the setters  *)
(* would, and a variable that says nothing readable changes nothing.       *)
ActsAsBuilder(env) ==
    IF \E option \in Required : env[option] = "unset"
    THEN from_env(env) = ConfigError
    ELSE from_env(env) = SetAll(env, builder, {o \in Options : Says(env, o)})
=============================================================================
