---------------------------- MODULE EgressPolicy ----------------------------
(***************************************************************************)
(* Which endpoints an upstream may have.  An endpoint has a host, a URL    *)
(* whose scheme, credentials, fragment and port are in order or not, and,  *)
(* when the host is not an address itself, the addresses a resolver gives. *)
(* An address is abstracted to the first of the classes the policy asks    *)
(* for: loopback, denied (metadata, link-local, unspecified, multicast or  *)
(* reserved), inside an allowed network, or any other.                     *)
(***************************************************************************)
CONSTANTS
    AllowedHosts,     \* settings.egress_allowed_hosts
    AllowLocalDemo    \* settings.egress_allow_local_demo

Addresses == {"loopback", "denied", "in_network", "other"}
MetadataHosts == {"metadata"}
LocalDemoHosts == {"localhost", "literal_loopback"}
\* Hosts that are addresses themselves; 127.0.0.2 is a loopback address that
\* is no demonstration host.
Literals == {"literal_loopback", "literal_other_loopback", "literal_denied",
             "literal_in_network", "literal_other"}
LiteralAddress(host) ==
    CASE host \in {"literal_loopback", "literal_other_loopback"} -> "loopback"
      [] host = "literal_denied" -> "denied"
      [] host = "literal_in_network" -> "in_network"
      [] OTHER -> "other"
Hosts == Literals \union MetadataHosts \union LocalDemoHosts
                  \union {"api", "elsewhere"}
Endpoints == [host: Hosts, url_accepted: BOOLEAN]

ASSUME EgressAssumption ==
    AllowedHosts \subseteq Hosts /\ AllowLocalDemo \in BOOLEAN

\* Mutation: an allowed host is asked for first.
AddressAccepted_HostFirst(address, host) ==
    \/ host \in AllowedHosts
    \/ address = "loopback" /\ AllowLocalDemo /\ host \in LocalDemoHosts
    \/ address = "in_network"

\* _validate_address
AddressAccepted(address, host) ==
    CASE address = "loopback" -> AllowLocalDemo /\ host \in LocalDemoHosts
      [] address = "denied" -> FALSE
      [] OTHER -> host \in AllowedHosts \/ address = "in_network"

\* StaticUpstreamEndpointPolicy.validate; a host that does not resolve has no
\* addresses.
EndpointAccepted(endpoint, resolved) ==
    LET host == endpoint.host IN
    /\ endpoint.url_accepted
    /\ host \notin MetadataHosts
    /\ IF host \in Literals
       THEN AddressAccepted(LiteralAddress(host), host)
       ELSE /\ host \in AllowedHosts
            /\ resolved # {}
            /\ \A address \in resolved : AddressAccepted(address, host)

\* The addresses a connection to the endpoint may reach.
Reached(endpoint, resolved) ==
    IF endpoint.host \in Literals THEN {LiteralAddress(endpoint.host)}
                                  ELSE resolved
=============================================================================
