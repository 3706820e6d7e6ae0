---------------------------- MODULE ScutilMain -----------------------------
(***************************************************************************)
(* main() of scutil (src/scutil.tproj/scutil.c, lines 262-355): the       *)
(* getopt_long() loop takes one option per step and records it (lines    *)
(* 279-317), counting in xStore the options that ask for a mode of their *)
(* own; then the mode is chosen (lines 319-355).  usage() and every mode *)
(* handler exit, so the outcome is final.                                 *)
(***************************************************************************)
EXTENDS ScutilCommandLine

VARIABLES
  opts,        \* argv's options, in the order getopt_long() returns them
  operands,    \* argc after argc -= optind (line 316)
  next,        \* index of the option the next getopt_long() call returns
  reach,       \* line 270
  wait,        \* line 274, "none" for NULL
  get,         \* line 265
  set,         \* line 271
  timeout,     \* line 273
  xStore,      \* line 275
  settings,    \* which of _sc_debug, _sc_verbose, enablePrivateAPI are set
  sc_log,      \* _sc_log, framework logging to syslog (TRUE by default)
  outcome      \* "pending", or the handler main() ended in

vars == << opts, operands, next, reach, wait, get, set, timeout, xStore,
           settings, sc_log, outcome >>

Init ==
  /\ opts \in CommandLines
  /\ operands \in 0 .. MaxOperands
  /\ next = 1
  /\ reach = FALSE
  /\ wait = "none" /\ get = "none" /\ set = "none"
  /\ timeout = DefaultTimeout
  /\ xStore = 0
  /\ settings = {}
  /\ sc_log = TRUE
  /\ outcome = "pending"

\* Mutant of GetOpt: --set decrements xStore instead of incrementing it.
GetOptSetDecrements ==
  /\ outcome = "pending"
  /\ next <= Len(opts)
  /\ next' = next + 1
  /\ LET o == opts[next] IN
     \/ /\ o.opt = "set"
        /\ set' = o.arg /\ xStore' = xStore - 1
        /\ UNCHANGED << reach, wait, get, timeout, settings, sc_log, outcome >>
     \/ /\ o.opt # "set"
        /\ UNCHANGED << reach, wait, get, set, timeout, xStore, settings,
                        sc_log, outcome >>
  /\ UNCHANGED << opts, operands >>

\* Mutant of GetOpt: -w is not counted in xStore.
GetOptWaitUncounted ==
  /\ outcome = "pending"
  /\ next <= Len(opts)
  /\ next' = next + 1
  /\ LET o == opts[next] IN
     \/ /\ o.opt = "r"
        /\ reach' = TRUE /\ xStore' = xStore + 1
        /\ UNCHANGED << wait, get, set, timeout, settings, sc_log, outcome >>
     \/ /\ o.opt = "w"
        /\ wait' = o.arg
        /\ UNCHANGED << reach, get, set, timeout, xStore, settings, sc_log, outcome >>
     \/ /\ o.opt \in {"help", "bad"}
        /\ outcome' = "usage"
        /\ UNCHANGED << reach, wait, get, set, timeout, xStore, settings, sc_log >>
     \/ /\ o.opt \in {"d", "v", "p", "t", "get", "set"}
        /\ UNCHANGED << reach, wait, get, set, timeout, xStore, settings,
                        sc_log, outcome >>
  /\ UNCHANGED << opts, operands >>

\* Lines 279-315: one getopt_long() call and its case.  -d and -v turn
\* framework logging from syslog to the terminal; -r, -w, --get and --set
\* each count in xStore; -t keeps atoi() of its argument; '?' (--help, an
\* unknown option, a missing argument) prints the usage and exits.
GetOpt ==
  /\ outcome = "pending"
  /\ next <= Len(opts)
  /\ next' = next + 1
  /\ LET o == opts[next] IN
     \/ /\ o.opt = "d"
        /\ settings' = settings \cup {"debug"} /\ sc_log' = FALSE
        /\ UNCHANGED << reach, wait, get, set, timeout, xStore, outcome >>
     \/ /\ o.opt = "v"
        /\ settings' = settings \cup {"verbose"} /\ sc_log' = FALSE
        /\ UNCHANGED << reach, wait, get, set, timeout, xStore, outcome >>
     \/ /\ o.opt = "p"
        /\ settings' = settings \cup {"privateAPI"}
        /\ UNCHANGED << reach, wait, get, set, timeout, xStore, sc_log, outcome >>
     \/ /\ o.opt = "r"
        /\ reach' = TRUE /\ xStore' = xStore + 1
        /\ UNCHANGED << wait, get, set, timeout, settings, sc_log, outcome >>
     \/ /\ o.opt = "t"
        /\ timeout' = o.arg
        /\ UNCHANGED << reach, wait, get, set, xStore, settings, sc_log, outcome >>
     \/ /\ o.opt = "w"
        /\ wait' = o.arg /\ xStore' = xStore + 1
        /\ UNCHANGED << reach, get, set, timeout, settings, sc_log, outcome >>
     \/ /\ o.opt = "get"
        /\ get' = o.arg /\ xStore' = xStore + 1
        /\ UNCHANGED << reach, wait, set, timeout, settings, sc_log, outcome >>
     \/ /\ o.opt = "set"
        /\ set' = o.arg /\ xStore' = xStore + 1
        /\ UNCHANGED << reach, wait, get, timeout, settings, sc_log, outcome >>
     \/ /\ o.opt \in {"help", "bad"}
        /\ outcome' = "usage"
        /\ UNCHANGED << reach, wait, get, set, timeout, xStore, settings, sc_log >>
  /\ UNCHANGED << opts, operands >>

\* Lines 316-355: after the last option, more than one request is a usage
\* error; otherwise -r (with one or two operands), -w, --get and --set (of
\* a known preference) run their handler, in that order, and without any
\* request scutil goes on to read commands (line 357 on).
Select ==
  /\ outcome = "pending"
  /\ next > Len(opts)
  /\ outcome' = CASE xStore > 1     -> "usage"
                  [] reach          -> IF operands \in 1 .. 2 THEN "reach" ELSE "usage"
                  [] wait # "none"  -> "wait"
                  [] get # "none"   -> IF FindPref(get) THEN "getPref" ELSE "usage"
                  [] set # "none"   -> IF FindPref(set) THEN "setPref" ELSE "usage"
                  [] OTHER          -> "interactive"
  /\ UNCHANGED << opts, operands, next, reach, wait, get, set, timeout,
                  xStore, settings, sc_log >>

Next == GetOpt \/ Select

\* scutil is a single thread: while main() runs, its next step is taken.
Spec == Init /\ [][Next]_vars /\ WF_vars(Next)

-----------------------------------------------------------------------------
TypeOK ==
  /\ opts \in CommandLines
  /\ operands \in 0 .. MaxOperands
  /\ next \in 1 .. MaxOpts + 1
  /\ reach \in BOOLEAN
  /\ wait \in {"none", "key"}
  /\ get \in {"none"} \cup PrefArgs /\ set \in {"none"} \cup PrefArgs
  /\ timeout \in {DefaultTimeout} \cup TimeoutArgs
  /\ xStore \in 0 .. MaxOpts
  /\ settings \subseteq {"debug", "verbose", "privateAPI"}
  /\ sc_log \in BOOLEAN
  /\ outcome \in {"pending"} \cup Outcomes

\* The refinement mapping: until main() has decided, the abstract mode is
\* pending; the timeout is observed only by the wait handler.
Modes == INSTANCE ScutilModes
           WITH mode <- outcome,
                timeout <- IF outcome = "wait" THEN timeout ELSE DefaultTimeout

\* The option loop and the checks after it implement the usage() contract:
\* whatever the order of the options, main() ends in the one mode the whole
\* command line asks for (a second request, even a repeated one, is a
\* usage error), and it always ends.
ModesRefined == Modes!Spec

=============================================================================
