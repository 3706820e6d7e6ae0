-------------------------- MODULE MCDnsInfoClient --------------------------
(* Model-checking instance of DnsInfoClient: two threads, enough copy and  *)
(* ack calls for a thread to take a reference while another drops the     *)
(* last one, and for the connection to be recreated after a teardown.     *)
EXTENDS DnsInfoClient

MCThreads == {"t1", "t2"}
=============================================================================
