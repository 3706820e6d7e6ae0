-------------------------- MODULE DnsConfigBuffer --------------------------
(***************************************************************************)
(* The size checks dns_configuration_copy() applies to the configuration  *)
(* blob of a reply before trusting it (src/dnsinfo/dnsinfo_copy.c, lines  *)
(* 162-218): the received length must be in range, the header's           *)
(* attribute length must account for it exactly, and the requested        *)
(* padding must keep the in-memory buffer within DNS_CONFIG_BUF_MAX.      *)
(*                                                                         *)
(* The blob comes from another process, so every combination of received  *)
(* length and header bytes is an input.  The header fields travel         *)
(* big-endian and are decoded with ntohl(); the length arithmetic is done *)
(* in size_t, which wraps at 2^SizeBits.                                  *)
(***************************************************************************)
EXTENDS Naturals, SequencesExt

CONSTANTS
  HeaderSize,   \* sizeof(_dns_config_buf_t)
  BufMax,       \* DNS_CONFIG_BUF_MAX
  ByteBase,     \* values of one byte on the wire
  FieldBytes,   \* bytes of a uint32_t header field
  SizeBits,     \* width of size_t in bits
  MaxRecv       \* largest received length enumerated

Byte == 0 .. ByteBase - 1
FieldMax == ByteBase ^ FieldBytes       \* a uint32_t holds 0 .. FieldMax-1
SizeMod == 2 ^ SizeBits                 \* size_t arithmetic is modulo this

ASSUME HeaderSize \in Nat \ {0} /\ HeaderSize <= BufMax
ASSUME BufMax < FieldMax /\ FieldMax <= SizeMod
ASSUME MaxRecv \in Nat /\ MaxRecv > BufMax /\ MaxRecv < SizeMod

\* Mutant of Ntohl: each byte is shifted by a whole field instead of a byte.
NtohlWideShift(bytes) ==
  FoldLeft(LAMBDA acc, b : acc * ByteBase ^ FieldBytes + b, 0, bytes)

\* ntohl(): the field's bytes are in network (big-endian) order.
Ntohl(bytes) == FoldLeft(LAMBDA acc, b : acc * ByteBase + b, 0, bytes)

Wire == [1 .. FieldBytes -> Byte]

VARIABLES
  present,      \* the reply carries DNSINFO_CONFIGURATION data (line 166)
  dataLen,      \* the received length
  attrWire,     \* header field n_attribute, as received
  padWire,      \* header field n_padding, as received
  n_attribute,  \* decoded attribute length (line 171)
  n_padding,    \* decoded padding length (line 172)
  bufLen,       \* size_t bufLen (line 199)
  buf,          \* the allocated buffer: its size and the bytes written
  step,         \* the check being executed
  outcome       \* the result of the copy

vars == << present, dataLen, attrWire, padWire, n_attribute, n_padding,
           bufLen, buf, step, outcome >>

NoBuf == [size |-> 0, written |-> 0]

Init ==
  /\ present \in BOOLEAN
  /\ dataLen \in 0 .. MaxRecv
  /\ attrWire \in Wire
  /\ padWire \in Wire
  /\ n_attribute = 0
  /\ n_padding = 0
  /\ bufLen = 0
  /\ buf = NoBuf
  /\ step = "get_data"
  /\ outcome = "pending"

\* A failed assert() aborts the process.
Abort ==
  /\ step' = "done"
  /\ outcome' = "abort"

\* Mutant of GetData: off by one, a blob of exactly DNS_CONFIG_BUF_MAX
\* bytes is refused.
GetDataBelowMax ==
  /\ step = "get_data"
  /\ \/ /\ present
        /\ dataLen >= HeaderSize
        /\ dataLen < BufMax
        /\ n_attribute' = Ntohl(attrWire)
        /\ n_padding' = Ntohl(padWire)
        /\ step' = "check_len"
        /\ UNCHANGED outcome
     \/ /\ ~(present /\ dataLen >= HeaderSize /\ dataLen < BufMax)
        /\ step' = "done"
        /\ outcome' = "no_config"
        /\ UNCHANGED << n_attribute, n_padding >>
  /\ UNCHANGED << present, dataLen, attrWire, padWire, bufLen, buf >>

\* Lines 166-172: take the data only when present and of a length between
\* the header size and the maximum; otherwise the copy returns NULL.
GetData ==
  /\ step = "get_data"
  /\ \/ /\ present
        /\ dataLen >= HeaderSize
        /\ dataLen <= BufMax
        /\ n_attribute' = Ntohl(attrWire)
        /\ n_padding' = Ntohl(padWire)
        /\ step' = "check_len"
        /\ UNCHANGED outcome
     \/ /\ ~(present /\ dataLen >= HeaderSize /\ dataLen <= BufMax)
        /\ step' = "done"
        /\ outcome' = "no_config"
        /\ UNCHANGED << n_attribute, n_padding >>
  /\ UNCHANGED << present, dataLen, attrWire, padWire, bufLen, buf >>

\* Lines 180-181: configLen = sizeof(_dns_config_buf_t) + n_attribute, in
\* size_t, must equal the received length.
CheckConfigLen ==
  /\ step = "check_len"
  /\ IF (HeaderSize + n_attribute) % SizeMod = dataLen
       THEN /\ step' = "check_pad" /\ UNCHANGED outcome
       ELSE Abort
  /\ UNCHANGED << present, dataLen, attrWire, padWire, n_attribute,
                  n_padding, bufLen, buf >>

\* Line 190: n_padding <= DNS_CONFIG_BUF_MAX - dataLen, in size_t.
CheckPadding ==
  /\ step = "check_pad"
  /\ IF n_padding <= (BufMax - dataLen) % SizeMod
       THEN /\ step' = "check_buf" /\ UNCHANGED outcome
       ELSE Abort
  /\ UNCHANGED << present, dataLen, attrWire, padWire, n_attribute,
                  n_padding, bufLen, buf >>

\* Lines 199-200: bufLen = dataLen + n_padding, in size_t, is at most
\* DNS_CONFIG_BUF_MAX.
CheckBufLen ==
  /\ step = "check_buf"
  /\ bufLen' = (dataLen + n_padding) % SizeMod
  /\ IF bufLen' <= BufMax
       THEN /\ step' = "alloc" /\ UNCHANGED outcome
       ELSE Abort
  /\ UNCHANGED << present, dataLen, attrWire, padWire, n_attribute,
                  n_padding, buf >>

\* Lines 204-206: malloc(bufLen), copy the dataLen received bytes into it and
\* zero the n_padding bytes after them.
Allocate ==
  /\ step = "alloc"
  /\ buf' = [size |-> bufLen, written |-> dataLen + n_padding]
  /\ step' = "expand"
  /\ UNCHANGED << present, dataLen, attrWire, padWire, n_attribute,
                  n_padding, bufLen, outcome >>

\* Lines 212-218: _dns_configuration_expand_config() (not in src/) either
\* yields a configuration or fails on content it does not understand, in
\* which case the buffer is freed and the copy returns NULL.
Expand ==
  /\ step = "expand"
  /\ step' = "done"
  /\ \E expanded \in BOOLEAN :
       outcome' = IF expanded THEN "config" ELSE "no_config"
  /\ UNCHANGED << present, dataLen, attrWire, padWire, n_attribute,
                  n_padding, bufLen, buf >>

Next == GetData \/ CheckConfigLen \/ CheckPadding \/ CheckBufLen
          \/ Allocate \/ Expand

Spec == Init /\ [][Next]_vars

\* The copy has returned or aborted.
Done == step = "done"

-----------------------------------------------------------------------------
TypeOK ==
  /\ present \in BOOLEAN
  /\ dataLen \in 0 .. MaxRecv
  /\ attrWire \in Wire /\ padWire \in Wire
  /\ n_attribute \in 0 .. FieldMax - 1
  /\ n_padding \in 0 .. FieldMax - 1
  /\ bufLen \in 0 .. SizeMod - 1
  /\ buf \in [size : 0 .. SizeMod - 1, written : Nat]
  /\ step \in {"get_data", "check_len", "check_pad", "check_buf", "alloc",
               "expand", "done"}
  /\ outcome \in {"pending", "abort", "no_config", "config"}

\* The reference definition: the size invariants of spec section 3 over the
\* decoded header, in unbounded arithmetic.
SpecValid ==
  LET attr == Ntohl(attrWire)
      pad  == Ntohl(padWire)
  IN /\ dataLen >= HeaderSize
     /\ HeaderSize + attr = dataLen
     /\ dataLen + pad <= BufMax

\* A blob is handed to expansion exactly when it is present and satisfies
\* the spec's size invariants, and then the buffer is as long as the data
\* plus the padding.
AcceptedIffSpecValid ==
  Done =>
    /\ (buf # NoBuf) <=> (present /\ SpecValid)
    /\ buf # NoBuf => buf.size = dataLen + Ntohl(padWire)

\* Spec 4.2: every size check is a hard failure, so a blob that is present
\* but violates the size invariants aborts the process.
BadSizeAborts ==
  Done /\ present /\ ~SpecValid => outcome = "abort"

=============================================================================
