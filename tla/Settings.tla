------------------------------ MODULE Settings ------------------------------
(***************************************************************************)
(* What the program makes of scety.toml: ScetyConfig::new of               *)
(* src/src/config/get_scety_config.rs.  Pure operators, no state.          *)
(*                                                                         *)
(* A timer is written as a text.  "absent" stands for a key that is not    *)
(* there, "-1" switches the timer off, and a text of Durations is one that *)
(* humantime understands; it stands for what it means.                     *)
(***************************************************************************)
CONSTANT Durations

DefaultTimeout == "5s"

ASSUME DurationsAssumption ==
    /\ DefaultTimeout \in Durations
    /\ {"absent", "-1", "off"} \cap Durations = {}

\* The three timers of the section [limitation].
TimerKeys == {"headers", "body", "full"}

\* Fault: a text that is no duration switches the timer off.
ParseLeniently(raw) ==
    CASE raw \in {"absent"} \cup Durations -> raw
      [] OTHER -> "off"

ParseOptionalTimeout(raw) ==
    CASE raw \in {"absent"} \cup Durations -> raw
      [] raw = "-1" -> "off"
      [] OTHER -> DefaultTimeout

OrDefault(timer) == IF timer = "absent" THEN DefaultTimeout ELSE timer

\* The timers in force, and whether they are the full one: it counts only if
\* neither of the other two is written.
Timeouts(raw) ==
    LET timer == [t \in TimerKeys |-> ParseOptionalTimeout(raw[t])] IN
    IF timer.headers = "absent" /\ timer.body = "absent" /\ timer.full # "absent"
    THEN [headers |-> timer.full, body |-> timer.full, use_full |-> TRUE]
    ELSE [headers |-> OrDefault(timer.headers), body |-> OrDefault(timer.body),
          use_full |-> FALSE]
=============================================================================
