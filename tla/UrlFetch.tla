------------------------------- MODULE UrlFetch --------------------------------
(***************************************************************************)
(* Fetching a page of somebody else's site (core/security/ssrf.py):        *)
(* UrlFetcher.fetch as the set of outcomes it can have, over every answer  *)
(* of the name service and every reply of a server, asked anew for every   *)
(* redirect.  The callers are in Crawl.                                    *)
(*                                                                         *)
(* An address is of some ranges or of none; a host is a name, or an        *)
(* address written out.  A URL with another scheme, without a host or with *)
(* a port that is no number is Malformed.  Entries of the allow list are   *)
(* the hosts, and the domains, they stand for.  The loopback mode is for   *)
(* tests alone.                                                            *)
(***************************************************************************)
EXTENDS Naturals

CONSTANTS
    Hosts,         \* hosts a URL can name
    Addresses,     \* addresses a name can have
    Is,            \* what the address ranges say of each: "private", "loopback", ...
    Allowlist,     \* entries of the allow list; none: every host
    Dotless,       \* entries without a dot, as "com"
    Above,         \* the entries a host ends with, behind a dot
    Unreachable,   \* hosts whose servers never answer
    Pages,         \* what a page says, as text
    MaxRedirects   \* settings.url_fetch_max_redirects

ASSUME RangesAssumption ==
    Is \in [Addresses -> SUBSET {"private", "loopback", "link_local", "reserved", "multicast",
                                  "unspecified"}]
ASSUME AboveAssumption == Above \in [Hosts -> SUBSET Allowlist]
ASSUME RedirectsAssumption == MaxRedirects \in Nat

Malformed == "malformed"
Urls == Hosts \cup {Malformed}
NoPage == "no page"

Kinds == {"page", "blocked", "failed", "raised"}

\* What fetch comes to: a page, SsrfBlockedError, FetchError or an exception of the
\* HTTP client, and the hosts it connected to, each at its address.
Outcomes == [kind : Kinds, page : Pages \cup {NoPage}, contacts : SUBSET (Hosts \X Addresses)]

Ended(kind) == [kind |-> kind, page |-> NoPage, contacts |-> {}]

HostAllowed(host) ==
    \/ Allowlist = {}
    \/ host \in Allowlist
    \/ Above[host] \ Dotless # {}

\* is_public_ip: the addresses of the public network are in none of the ranges.
Public == {addr \in Addresses : Is[addr] = {}}

\* The answers of the name service for a host: an address written out is itself, a
\* name has any addresses each time it is looked up, or none.
Answers(host) == IF host \in Addresses THEN {{host}} ELSE SUBSET Addresses

\* Mutant of Pins: the host is looked up again for the connection, so that checking one
\* address is all that is done.
PinsAgain(answer) == IF answer \cap Public = {} THEN {} ELSE answer

\* The addresses of an answer that the fetcher may connect to: one of them, the same
\* it has checked, and no one if any is not public.
Pins(answer) == IF answer \subseteq Public THEN answer ELSE {}

\* What a server that is asked for a page may reply, and what fetch makes of it; more
\* is what it comes to with a redirect to each URL.  A redirect without a target, or
\* a page over the size limit, has failed; an error status, a timeout or a refused
\* connection is an exception of the client.
Replies(host, more) ==
    IF host \in Unreachable
    THEN {Ended("raised")}
    ELSE UNION {{[Ended("page") EXCEPT !.page = p] : p \in Pages},
                {Ended("failed"), Ended("raised")},
                UNION {more[u] : u \in Urls}}

\* One round of the loop: the URL is checked, its host is looked up and one address
\* of it asked.
Hop(url, more) ==
    IF url = Malformed \/ ~HostAllowed(url)
    THEN {Ended("blocked")}
    ELSE LET Asked(addr) == {[o EXCEPT !.contacts = @ \cup {<<url, addr>>}]
                               : o \in Replies(url, more)}
             Looked(answer) == IF Pins(answer) = {} THEN {Ended("blocked")}
                               ELSE UNION {Asked(addr) : addr \in Pins(answer)}
         IN UNION {Looked(answer) : answer \in Answers(url)}

\* The outcomes of fetching each URL with n redirects left: the redirect after the
\* last has failed, whatever it leads to.
Fetches[n \in 0..MaxRedirects] ==
    LET more == IF n = 0 THEN [u \in Urls |-> {Ended("failed")}] ELSE Fetches[n - 1]
    IN [u \in Urls |-> Hop(u, more)]

\* UrlFetcher.fetch.
Fetch(url) == Fetches[MaxRedirects][url]
================================================================================
