# Model checking configd's DNS configuration client and scutil

This directory holds TLA+ models of the code under `src/`, with TLC
configurations that check them. Every action and operator is translated
from the C source. Where the code calls into code outside src/ (libSC, the
daemon), that callee is taken from the specification, and `PROJECT.json`
marks those definitions `spec_modelled`. Parts of src/ that are only a
header, with no bodies to translate, are not modelled (see the end). `PROJECT.json` maps each definition to the lines it
models (`map`), lists the runs, the mutants that show each property can
fail, the findings and the hazards.

## The system and its parts

| Part | Source | Model | Status |
|---|---|---|---|
| DNS configuration client: connection refcount `dnsinfo_active`, shared `dnsinfo_client`, `dns_configuration_copy/free` | `src/dnsinfo/dnsinfo_copy.c` 59-241 | `DnsInfoClient` | modelled |
| Acknowledgement `_dns_configuration_ack`, with the generation it carries | `dnsinfo_copy.c` 244-276 | `DnsInfoClient` | modelled (daemon side from the spec) |
| Size validation of the configuration blob in a reply | `dnsinfo_copy.c` 162-218 | `DnsConfigBuffer` | modelled |
| Queue, activity and notify-key accessors (`dispatch_once`) | `dnsinfo_copy.c` 40-91 | none | constant objects; the queue appears as atomicity |
| scutil `getLine`, `getString`, `process_line`; input stream setup in `main()` | `src/scutil.tproj/scutil.c` 92-226, 360-404 | `ScutilParser` | modelled (fgets and editline paths) |
| scutil `main()` option parsing and mode selection; `usage()` contract | `scutil.c` 78-89, 229-355 | `ScutilCommandLine`, `ScutilModes`, `ScutilMain` | modelled, with a refinement |
| configd session registry | `src/configd.tproj/session.h` | none | header only: struct and prototypes |
| Ranked network interface list | `src/nwi/network_information.h` | none | header only: prototypes, contracts, flag macros |

How the parts interact:
- Threads of a client process call `dns_configuration_copy()`. It takes a
  reference under the serial queue, creates the libSC connection when needed,
  and sends a synchronous XPC request.
- The reply's blob is validated (`DnsConfigBuffer`) and expanded.
  `dns_configuration_free()` drops the reference, and the last reference
  releases the connection.
- `_dns_configuration_ack()` pins the connection for the life of the process
  and sends an acknowledgement of the configuration's generation.
- scutil is a separate program. `main()` parses its options and either runs
  one request mode or reads commands line by line into a stack buffer, from
  editline on a terminal or from fgets otherwise, and splits them into
  arguments.

## Modules

### DnsInfoClient (+ MCDnsInfoClient)

State:
- the code's two globals, `dnsinfo_active` and `dnsinfo_client`;
- `clientState`, the lifecycle of each connection object: unused, active,
  inactive or released;
- per thread: a `pc`, whether the current copy holds a reference (`ref`), the
  connection its request went out on (`cl`), and the configurations it owns
  (`held`);
- `pins`, the references taken by acks.

Each `dispatch_sync` block is one atomic action: `CopyQueue` (109-137),
`Free` (231-237, with `ReleaseClient` for 234-235) and `AckQueue` (258-260). The queue is serial, so those
blocks are mutually exclusive.

Each load of the global outside the queue is a step of its own. Line 139
and line 253 each load it twice, once for the NULL test and once for
`->active`:
- `CopyCheck` and `CopyActive` (139)
- `CopySend` (159)
- `AckCheck` and `AckActive` (253)
- `AckSend` (272)

A NULL or released connection dereferenced in one of these steps, or passed
to `libSC_info_client_release` by the last free, sends the thread to
`fault`. `Invalidate` is the XPC error handler. It lives in libSC,
which is not under src/, so it is modelled from the spec.

`CopyReply` covers the whole rest of the copy (162-220). It returns NULL, or
returns a configuration when the connection was still active. `DnsConfigBuffer`
details the size checks.

Generations:
- `held[t]` is a bag of the generations of the configurations thread `t`
  owns.
- `CopyReply` adds the generation the daemon serves at that moment.
- `AckCheck` picks a held configuration to acknowledge.
- `AckSend` appends its generation to `inbox`, the connection's FIFO message
  queue. A message sent on an invalidated connection is dropped.
- `Publish` and `ServerAck` model the daemon from the spec, only so far as
  the client sees it: growing generations, and a queue of acks it drains.
  No property is about the daemon.

Refinement: `ConnectionHandle` is the connection handle of spec 4.3, a
handle that is open while any acquire is unreleased. Its `Acquire` opens
the handle and counts one more holder. Its `Release` counts one fewer, and
the last release closes the handle. In `DnsInfoClient`:
- `Handle == INSTANCE ConnectionHandle WITH handle <- (open iff
  dnsinfo_client # NULL), refs <- dnsinfo_active` is the refinement mapping;
- `HandleRefined == Handle!Spec` is checked as a PROPERTY.

The copy's and the ack's queue blocks are acquires, the free is a release,
and every other step is a stutter of the handle.

Derived quantity: `Owed` is the number of references callers can still give
back: configurations held, plus copies in flight that took a reference, plus
pins.

### DnsConfigBuffer (+ MCDnsConfigBuffer)

Inputs:
- whether data is present;
- the received length;
- the big-endian bytes of the two header fields. `Ntohl` folds them with
  `FoldLeft`.

One action per check, in the code's order:
- `GetData` (166-172)
- `CheckConfigLen` (180-181)
- `CheckPadding` (190)
- `CheckBufLen` (199-200)
- `Allocate` (204-206)
- `Expand` (212-218)

Arithmetic is size_t modulo `2^SizeBits`. A failed assert is `Abort`.

`SpecValid` is the reference definition: the spec's size invariants in
unbounded arithmetic.

### ScutilParser (+ MCScutilParser)

`mem` is `line[LINE_LENGTH]` byte by byte. Any read outside the buffer
yields `OOB`.

There are two input paths, and `el` records which one is in use:
- `fgets` overwrites only the new line and its NUL, so bytes of earlier lines
  remain.
- editline's line is copied in with `strncpy`. `strncpy` copies up to the
  line's first NUL and pads with NULs, or writes no NUL at all when the line
  fills the buffer.

`UsesEditLine` is `main()`'s choice between the two (360-399): a terminal,
the echo flag, what the editrc sets, and the `el_get` result.

Actions:
- `ReadLine` (getLine, 92-129): fgets, strlen, and stripping the newline.
- `GetString` (132-180): one call.
- `Command` (213-225): records the argv that `do_command` would get.
- `EndOfInput`: EOF or exit.

The scanner loop of 153-165 and the copy loop of 169-173 are RECURSIVE
operators, `Scan` and `Copy`. `fresh` records how many bytes fgets wrote for
the current line.

### ScutilCommandLine, ScutilModes, ScutilMain (+ MCScutilMain)

- `ScutilCommandLine` defines the command lines. An option is a record of
  what `getopt_long` returns for `"dvprt:w:"` and `longopts[]` (78-89), plus
  its argument. `-t` carries atoi's result; `--get`/`--set` carry a known or
  unknown preference.
- `ScutilModes` is the abstract specification. It is the contract of the
  `usage()` text (229-252): in one step, `Decide` sets the mode that the
  whole command line asks for.
  - More than one request, or `--help`, or a bad option, gives usage.
  - `-r` needs 1-2 operands, and `--get`/`--set` need a known preference.
  - `-w` waits for the last `-t`, or 15.
- `ScutilMain` is the code.
  - `GetOpt` is one loop iteration with every case (279-315). The `?` case
    exits with usage immediately.
  - `Select` is the chain of checks after the loop (316-355).
- `Modes == INSTANCE ScutilModes WITH mode <- outcome, timeout <- ...` is the
  refinement mapping, and `ModesRefined == Modes!Spec` is checked as a
  PROPERTY. That includes the abstract spec's weak fairness, so `main()`
  always reaches its outcome.

## Runs

| Run | cfg | Expect | What it shows |
|---|---|---|---|
| dnsinfo_client | MCDnsInfoClient.cfg | pass | With creation always succeeding, any interleaving of copy, ack and free by two threads, and invalidation at any time, never loads a NULL or released client from `dnsinfo_client` (`NoFault`). The count never falls below the references callers hold (`RefcountCoversOwed`), and the count and the shared pointer implement the acquire/release handle of spec 4.3 (`HandleRefined`). |
| dnsinfo_leak | MCDnsInfoClient_leak.cfg | violation | `RefcountExact` fails: a copy that returns NULL keeps its reference, so the connection can never be closed. |
| dnsinfo_createfail | MCDnsInfoClient_createfail.cfg | violation | `NoFault` fails once creation can fail: the failing thread re-reads `dnsinfo_client` at 139 without a reference, another thread's free releases and clears it, and the second load of line 139 dereferences NULL. |
| dnsinfo_underflow | MCDnsInfoClient_underflow.cfg | violation | `HandleRefined` fails once creation can fail: the failing copy still returns a configuration from the other thread's client, and the two frees take `dnsinfo_active` to -1, after which no free reaches 0. |
| dnsconfig_buffer | MCDnsConfigBuffer.cfg | pass | A blob is accepted iff it is present and spec-valid, and the buffer is then exactly data plus padding, even where size_t wraps (`AcceptedIffSpecValid`). |
| dnsconfig_fatal | MCDnsConfigBuffer_fatal.cfg | violation | `BadSizeAborts` fails: an out-of-range length is dropped quietly at 168 instead of aborting. |
| scutil_parser | MCScutilParser.cfg | pass | On both input paths, every argument fits the malloc sized for it (`CopyFitsAllocation`). |
| scutil_el | MCScutilParser_el.cfg | violation | `LineTerminated` fails: an editline line as long as `line[]` is copied by `strncpy` with no NUL, so strlen and the parse run past the buffer. |
| scutil_main | MCScutilMain.cfg | pass | For every command line of up to three options and three operands, main() refines the usage() contract and always ends (`ModesRefined`). |
| scutil_stale | MCScutilParser_stale.cfg | violation | `ParseReadsOnlyNewBytes` fails: after an unterminated quote on a line with no newline, line 176 steps past the NUL. |
| scutil_oob | MCScutilParser_oob.cfg | violation | `NoOutOfBounds` fails: a line starting with NUL makes getLine read `buf[-1]`. |

Each property of a passing run has a mutant in `PROJECT.json`: a plausible
bug in the mapped code that TLC catches.

## Bounds and why they are enough

- **DnsInfoClient**: two threads, `MaxCopies = 4`, `MaxAcks = 2`,
  `MaxGen = 2` in the main run (`MaxGen = 1` in the violation runs).
  Each thread can hold a configuration of a different generation and ack
  it, in either order. Every
  hazard involves two actors: a create racing a free, or a check racing a
  release. Four copies let a connection be created, released and created
  again, while the other thread holds or acks one.
- **DnsConfigBuffer**: the constants are scaled down together.
  - A 2-digit base-4 field (`FieldMax = 16`).
  - A 4-bit size_t (`SizeMod = 16`).
  - Header 2, `BufMax = 10`, received lengths up to 12.

  These keep the relations that matter: `BufMax < FieldMax <= SizeMod`, so a
  header field can make `dataLen + n_padding` wrap, and lengths cover both
  sides of both range bounds. With a 4-bit size_t, a header field as large as
  the real 32-bit one reaches the wrap.
- **ScutilMain**: up to 3 options from 13 option values, and 0-3 operands.
  That covers every pair of requests, a repeated request, a request with a
  bad option before or after it, `-t` given twice, and the operand bounds of
  `-r` on both sides.
- **ScutilParser**: `LINE_LENGTH = 4`, lines of up to 3 bytes with or
  without a newline, and 2 lines per behaviour. That covers:
  - lines that fit;
  - lines that fgets truncates;
  - lines that leave stale bytes for the next line.

  The bytes are a letter, `#`, blank, quote, backslash and NUL.

## Fairness

DnsInfoClient states weak fairness on the steps a thread takes inside a
call (the queue block, the loads of the global, the send, the reply), but
no run checks a liveness property of it: that every copy returns would
follow from that fairness alone, and the reply depends on libSC and XPC,
which are not under src/.
ScutilMain has weak fairness on its next step: main() is a single thread.
DnsConfigBuffer and ScutilParser are sequential and check safety only.
Deadlock checking is off in the runs where the program may stop: a client
may stop calling the library, and the parser stops at end of input.

## Not modelled

- The libSC client library and `_dns_configuration_expand_config` are not
  under src/. The libSC client is modelled from the spec; expansion is a free
  choice.
- editline's history calls, which change nothing the parser reads.
- The `dispatch_once` accessors of the queue, the activity and the notify
  key (dnsinfo_copy.c 45-91). They build constant objects. The queue
  appears as the atomicity of the blocks that run on it.
- The `MAIN` test program (dnsinfo_copy.c 279-292), a single copy and free,
  which is one behaviour of `DnsInfoClient`.
- scutil's command loop and exit (scutil.c 400-410) are covered only as
  `EndOfInput`. `__showMachPortStatus` is a debug print.
- The mode handlers (`do_checkReachability`, `do_wait`, `do_getPref`,
  `do_setPref`) and `findPref` are not under src/. `findPref` is a known or
  unknown preference, and the effect of a non-positive `-t` timeout in
  `do_wait` cannot be modelled.
- The network information API (`src/nwi/network_information.h`). The
  header declares the `nwi_*` functions and documents them, and defines the
  `NWI_IFSTATE_FLAGS_*` macros, but the state's layout and every body are
  in files that are not in this repository. A model would check only its
  own invented definitions, so there is none.
- The configd session registry (`src/configd.tproj/session.h`). The header
  has the `serverSession` struct and the prototypes of `getSession`,
  `addSession`, `removeSession`, `cleanupSession` and `listSessions`; their
  bodies are not here, for the same reason.
- The daemon's handling of acknowledgements, and the order in which it
  applies acks that threads send in the opposite order to the generations'
  publication: that code is not under src/.
