------------------------- MODULE MCDnsConfigBuffer -------------------------
(* DnsConfigBuffer on a 32-bit build in miniature: size_t is no wider than *)
(* the uint32_t header fields (both 4 bits here), so every sum the checks *)
(* compute can wrap.  Two-byte fields of base-4 bytes make ntohl() order  *)
(* matter.                                                                *)
EXTENDS DnsConfigBuffer
=============================================================================
