------------------------- MODULE ScutilCommandLine -------------------------
(***************************************************************************)
(* The command lines scutil's main() (src/scutil.tproj/scutil.c) accepts: *)
(* the options getopt_long() returns for the option string "dvprt:w:" and *)
(* the long options of longopts[] (lines 78-89), and the operands left    *)
(* after them.  An option is a record: opt names it and arg is its        *)
(* argument, already as main() uses it ("none" when it takes none).       *)
(***************************************************************************)
EXTENDS Naturals, Sequences, FiniteSets

CONSTANTS
  MaxOpts,        \* longest option list enumerated
  MaxOperands,    \* most operands enumerated
  TimeoutArgs     \* values atoi() gives for the argument of -t

\* The preference names given to --get and --set: one findPref() knows
\* and one it does not.
PrefArgs == {"ComputerName", "bogus"}

\* findPref() (prefs.c): whether the preference is one scutil handles.
FindPref(p) == p = "ComputerName"

\* "help" is --help, which getopt_long() returns as '?'; "bad" is an
\* unknown option or one missing its argument, also returned as '?'.
Options ==
  {[opt |-> o, arg |-> "none"] : o \in {"d", "v", "p", "r", "help", "bad"}}
    \cup {[opt |-> "t", arg |-> a] : a \in TimeoutArgs}
    \cup {[opt |-> "w", arg |-> "key"]}
    \cup {[opt |-> o, arg |-> a] : o \in {"get", "set"}, a \in PrefArgs}

CommandLines == UNION {[1 .. k -> Options] : k \in 0 .. MaxOpts}

\* The options that each ask for a mode other than the interactive one.
RequestOpts == {"r", "w", "get", "set"}

\* The default of timeout (line 273).
DefaultTimeout == 15

Outcomes == {"usage", "reach", "wait", "getPref", "setPref", "interactive"}

=============================================================================
