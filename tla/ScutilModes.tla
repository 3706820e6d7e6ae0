---------------------------- MODULE ScutilModes ----------------------------
(***************************************************************************)
(* What scutil's command line promises, as its usage() text states it     *)
(* (src/scutil.tproj/scutil.c, lines 229-252): scutil runs interactively, *)
(* or runs exactly one of -r, -w, --get and --set; -r takes one or two    *)
(* operands, --get and --set a known preference, and -w waits for the    *)
(* time of the last -t.  Anything else prints the usage.  The mode is     *)
(* decided in one step from the whole command line.                       *)
(***************************************************************************)
EXTENDS ScutilCommandLine

VARIABLES
  opts,       \* the options on the command line
  operands,   \* the number of operands after them
  mode,       \* the mode scutil runs in, "pending" until decided
  timeout     \* the time -w waits for its key

vars == << opts, operands, mode, timeout >>

Given(o) == \E i \in DOMAIN opts : opts[i].opt = o

ArgOf(o) == opts[CHOOSE i \in DOMAIN opts : opts[i].opt = o].arg

Requests == {i \in DOMAIN opts : opts[i].opt \in RequestOpts}

LastTimeout ==
  IF ~Given("t") THEN DefaultTimeout
  ELSE opts[CHOOSE i \in DOMAIN opts :
              opts[i].opt = "t" /\ \A j \in DOMAIN opts : opts[j].opt = "t" => j <= i].arg

Intended ==
  CASE Given("help") \/ Given("bad") \/ Cardinality(Requests) > 1 -> "usage"
    [] Given("r")   -> IF operands \in 1 .. 2 THEN "reach" ELSE "usage"
    [] Given("w")   -> "wait"
    [] Given("get") -> IF FindPref(ArgOf("get")) THEN "getPref" ELSE "usage"
    [] Given("set") -> IF FindPref(ArgOf("set")) THEN "setPref" ELSE "usage"
    [] OTHER        -> "interactive"

Init ==
  /\ opts \in CommandLines
  /\ operands \in 0 .. MaxOperands
  /\ mode = "pending"
  /\ timeout = DefaultTimeout

Decide ==
  /\ mode = "pending"
  /\ mode' = Intended
  /\ timeout' = IF Intended = "wait" THEN LastTimeout ELSE timeout
  /\ UNCHANGED << opts, operands >>

Spec == Init /\ [][Decide]_vars /\ WF_vars(Decide)

=============================================================================
