--------------------------------- MODULE Dns ---------------------------------
(***************************************************************************)
(* dns.c.  A resolution waits with interrupts on (arp_resolve has enabled   *)
(* them), so a second one may begin inside it; all share the three static   *)
(* variables of the file.                                                   *)
(***************************************************************************)
EXTENDS Integers, Sequences, FiniteSets, SequencesExt

CONSTANTS
    Names,       \* host names
    DnsTries,    \* attempts of dns_resolve
    MaxQueries,  \* bound: DNS queries
    MaxNested    \* bound: nested resolutions

ASSUME DnsAssumption == DnsTries \in Nat /\ MaxQueries \in Nat /\ MaxNested \in Nat

VARIABLES
    dns,      \* dns_pending_id, dns_response_received, dns_resolved_ip; queries
    asking,   \* dns_resolve calls in progress, the innermost last
    replies,  \* DNS answers under way
    result    \* what the last dns_resolve returned

DnsVars == <<dns, asking, replies, result>>

Inner == asking[Len(asking)]
Query(name, id) == [name |-> name, id |-> id, tries |-> 1, nested |-> FALSE]

(* dns_resolve up to its first wait; dns_format_hostname writes the name.   *)
DnsResolve(name) ==
    /\ Len(asking) < MaxNested /\ dns.queries < MaxQueries
    /\ LET id == dns.queries + 1 IN
       /\ dns' = [dns EXCEPT !.queries = id, !.pending = id, !.received = FALSE]
       /\ asking' = Append([i \in 1 .. Len(asking) |-> [asking[i] EXCEPT !.nested = TRUE]], Query(name, id))
    /\ UNCHANGED <<replies, result>>

(* The server answers a query that is waiting; the answer may come late and *)
(* more than once.                                                          *)
DnsServer ==
    /\ \E i \in 1 .. Len(asking) :
          replies' = replies \cup {[id |-> asking[i].id, name |-> asking[i].name]}
    /\ UNCHANGED <<dns, asking, result>>

(* udp_input hands it to dns_udp_handler: an error answer (not ok) and an   *)
(* answer without an address are ignored.                                   *)
DnsHandler(r, ok) ==
    /\ replies' \in {replies, replies \ {r}}
    /\ dns' = IF ok /\ r.id = dns.pending
              THEN [dns EXCEPT !.received = TRUE, !.resolved = r.name] ELSE dns
    /\ UNCHANGED <<asking, result>>

DnsReturn ==
    /\ asking # <<>> /\ dns.received
    /\ result' = [asked |-> Inner.name, got |-> dns.resolved, nested |-> Inner.nested]
    /\ asking' = Front(asking)
    /\ UNCHANGED <<dns, replies>>

DnsRetry ==
    /\ asking # <<>> /\ ~dns.received /\ Inner.tries < DnsTries
    /\ asking' = [asking EXCEPT ![Len(asking)].tries = @ + 1]
    /\ UNCHANGED <<dns, replies, result>>

DnsFail ==
    /\ asking # <<>> /\ ~dns.received /\ Inner.tries = DnsTries
    /\ asking' = Front(asking)
    /\ UNCHANGED <<dns, replies, result>>

DnsInit ==
    /\ dns = [pending |-> 0, received |-> FALSE, resolved |-> "none", queries |-> 0]
    /\ asking = <<>> /\ replies = {}
    /\ result = [asked |-> "none", got |-> "none", nested |-> FALSE]

DnsNext ==
    \/ \E name \in Names : DnsResolve(name)
    \/ DnsServer \/ \E r \in replies, ok \in BOOLEAN : DnsHandler(r, ok)
    \/ DnsReturn \/ DnsRetry \/ DnsFail

DnsSpec == DnsInit /\ [][DnsNext]_DnsVars
-----------------------------------------------------------------------------
DnsTypeOK == dns.pending \in 0 .. MaxQueries /\ Len(asking) <= MaxNested

(* dns_resolve returns the address of the name it was asked for, also when  *)
(* answers to earlier queries come late or twice, unless another resolution *)
(* began inside it (they share their variables).                            *)
OwnAnswer == ~result.nested => result.got = result.asked
=============================================================================
