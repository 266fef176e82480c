---------------------------- MODULE NameSources ----------------------------
(***************************************************************************)
(* Where a host name and the resolver's settings come from, besides the    *)
(* DNS: parsing of resolv.conf (src/resolve/resolv_conf.rs, config.rs) and *)
(* of the hosts file (hosts.rs), line by line, and the order in which      *)
(* usnet_resolve_socket_addr asks hostname, hosts file and name servers.   *)
(* A line is its first word and the rest; words are opaque.                *)
(***************************************************************************)
EXTENDS Naturals, Sequences, SequencesExt, FiniteSetsExt

CONSTANTS Addresses,   \* words that parse as an IP address
          Names,       \* host names to look up
          ConfLines,   \* [name, words] of resolv.conf, comments and others included
          HostLines,   \* words of a line of the hosts file before any #
          HostNames,   \* possible results of gethostname: [name, domain], or NoHostname
          MaxLines

NoHostname == [name |-> "", domain |-> ""]     \* an error of gethostname

VARIABLES file, lines, cfg, hosts, loading

fileVars == <<file, lines, cfg, hosts, loading>>

MAX_NAME_SERVERS == 3
MAX_ATTEMPTS == 5
MAX_N_DOTS == 15
MAX_TIMEOUT == 30

default_config ==
  [name_servers |-> <<>>, search |-> <<>>, n_dots |-> 1, attempts |-> 2, timeout |-> 5,
   rotate |-> FALSE, use_inet6 |-> FALSE]

FileInit ==
  /\ file \in {"resolv.conf", "hosts"} /\ lines = <<>> /\ loading = "reading"
  /\ cfg = default_config /\ hosts = <<>>

------------------------------------------------------------------------------
(* resolv.conf *)

(* One word of an options line; n is -1 if there is no number after it. *)
SetOption(c, opt) ==
  CASE opt.name = "ndots" /\ opt.n >= 0 -> [c EXCEPT !.n_dots = Min({opt.n, MAX_N_DOTS})]
    [] opt.name = "timeout" /\ opt.n >= 0 -> [c EXCEPT !.timeout = Min({opt.n, MAX_TIMEOUT})]
    [] opt.name = "attempts" /\ opt.n >= 0 -> [c EXCEPT !.attempts = Min({opt.n, MAX_ATTEMPTS})]
    [] opt.name = "rotate" -> [c EXCEPT !.rotate = TRUE]
    [] opt.name = "inet6" -> [c EXCEPT !.use_inet6 = TRUE]
    [] OTHER -> c

AddServer(c, ip) ==
  IF Len(c.name_servers) < MAX_NAME_SERVERS /\ ip \in Addresses
  THEN [c EXCEPT !.name_servers = Append(@, ip)] ELSE c

(* Variant: domain does not replace an earlier search. *)
ConfLineKeepsSearch(c, line) ==
  CASE line.name = "nameserver" /\ line.words # <<>> -> AddServer(c, line.words[1])
    [] line.name = "domain" /\ line.words # <<>> /\ c.search = <<>> -> [c EXCEPT !.search = <<line.words[1]>>]
    [] line.name = "search" -> [c EXCEPT !.search = line.words]
    [] line.name = "options" -> FoldLeft(SetOption, c, line.words)
    [] OTHER -> c

ConfLine(c, line) ==
  CASE line.name = "nameserver" /\ line.words # <<>> -> AddServer(c, line.words[1])
    [] line.name = "domain" /\ line.words # <<>> -> [c EXCEPT !.search = <<line.words[1]>>]
    [] line.name = "search" -> [c EXCEPT !.search = line.words]
    [] line.name = "options" -> FoldLeft(SetOption, c, line.words)
    [] OTHER -> c

ReadConfLine(line) ==
  /\ file = "resolv.conf" /\ loading = "reading" /\ Len(lines) < MaxLines
  /\ cfg' = ConfLine(cfg, line) /\ lines' = Append(lines, line)
  /\ UNCHANGED <<file, hosts, loading>>

(* At the end of the file; reading it may also fail before. The search     *)
(* list defaults to the domain of the host.                                *)
EndConf(hostname) ==
  /\ file = "resolv.conf" /\ loading = "reading"
  /\ IF cfg.name_servers = <<>> \/ (cfg.search = <<>> /\ hostname = NoHostname)
     THEN loading' = "error" /\ UNCHANGED cfg
     ELSE /\ loading' = "loaded"
          /\ cfg' = IF cfg.search = <<>> /\ hostname.domain # ""
                    THEN [cfg EXCEPT !.search = <<hostname.domain>>] ELSE cfg
  /\ UNCHANGED <<file, lines, hosts>>

ReadFails == loading = "reading" /\ loading' = "error" /\ UNCHANGED <<file, lines, cfg, hosts>>

------------------------------------------------------------------------------
(* The hosts file *)

WellFormed(words) == words = <<>> \/ (words[1] \in Addresses /\ Len(words) > 1)

(* Variant: a malformed line is skipped. *)
ReadHostLineSkips(words) ==
  /\ file = "hosts" /\ loading = "reading" /\ Len(lines) < MaxLines
  /\ lines' = Append(lines, words)
  /\ hosts' = IF words # <<>> /\ WellFormed(words) THEN Append(hosts, words) ELSE hosts
  /\ UNCHANGED <<file, cfg, loading>>

(* A malformed line is an error of the whole file. *)
ReadHostLine(words) ==
  /\ file = "hosts" /\ loading = "reading" /\ Len(lines) < MaxLines
  /\ lines' = Append(lines, words)
  /\ hosts' = IF words # <<>> /\ WellFormed(words) THEN Append(hosts, words) ELSE hosts
  /\ loading' = IF WellFormed(words) THEN "reading" ELSE "error"
  /\ UNCHANGED <<file, cfg>>

EndHosts ==
  /\ file = "hosts" /\ loading = "reading"
  /\ loading' = "loaded" /\ UNCHANGED <<file, lines, cfg, hosts>>

(* find_address: that of the first host with this name or alias. *)
find_address(name) ==
  LET found == {i \in DOMAIN hosts : name \in Range(Tail(hosts[i]))}
  IN IF found = {} THEN "none" ELSE hosts[Min(found)][1]

(* usnet_resolve_socket_addr: where the address of a name comes from. *)
usnet_resolve_socket_addr(name, hostname) ==
  IF hostname # NoHostname /\ hostname.name = name THEN "127.0.0.1"
  ELSE IF loading = "loaded" /\ find_address(name) # "none" THEN find_address(name)
  ELSE "dns"

(* The address of a host and port: a literal address is taken as it is. *)
usnet_to_socket_addrs(host, hostname) ==
  IF host \in Addresses THEN host ELSE usnet_resolve_socket_addr(host, hostname)

------------------------------------------------------------------------------
FileNext ==
  \/ \E line \in ConfLines : ReadConfLine(line)
  \/ \E hostname \in HostNames : EndConf(hostname)
  \/ \E words \in HostLines : ReadHostLine(words)
  \/ EndHosts \/ ReadFails

FileSpec == FileInit /\ [][FileNext]_fileVars

(* The types of the variables; every name server is an address.            *)
FileTypeOK ==
  /\ file \in {"resolv.conf", "hosts"} /\ loading \in {"reading", "loaded", "error"}
  /\ lines \in Seq(IF file = "hosts" THEN HostLines ELSE ConfLines)
  /\ cfg.name_servers \in Seq(Addresses) /\ hosts \in Seq(HostLines)
  /\ {cfg.rotate, cfg.use_inet6} \subseteq BOOLEAN

(* Properties *)

LinesNamed(names) == SelectSeq(lines, LAMBDA line : line.name \in names /\ (line.words # <<>> \/ line.name = "search"))

(* All words of the options lines, and the numbers given to an option. *)
OptionWords == FlattenSeq([i \in DOMAIN LinesNamed({"options"}) |-> LinesNamed({"options"})[i].words])
Given(name) == SelectSeq(OptionWords, LAMBDA opt : opt.name = name /\ opt.n >= 0)
Capped(name, max, default) == IF Given(name) = <<>> THEN default ELSE Min({Last(Given(name)).n, max})

(* A loaded resolv.conf means what resolv.conf(5) says: the first three    *)
(* addresses given are the name servers and there is at least one, the     *)
(* last of the domain and search lines gives the search list (if there is  *)
(* none, the host's domain), and the last number given to an option        *)
(* counts, capped.                                                         *)
ConfMeansFile ==
  file = "resolv.conf" /\ loading = "loaded" =>
    LET ips == SelectSeq([i \in DOMAIN LinesNamed({"nameserver"}) |-> LinesNamed({"nameserver"})[i].words[1]],
                         LAMBDA ip : ip \in Addresses)
        searches == LinesNamed({"domain", "search"})
        search == IF searches = <<>> THEN <<>>
                  ELSE IF Last(searches).name = "search" THEN Last(searches).words
                  ELSE <<Last(searches).words[1]>>
    IN /\ ips # <<>> /\ cfg.name_servers = SubSeq(ips, 1, Min({3, Len(ips)}))
       /\ \/ cfg.search = search
          \/ search = <<>> /\ cfg.search \in {<<h.domain>> : h \in HostNames}
       /\ cfg.n_dots = Capped("ndots", 15, 1) /\ cfg.timeout = Capped("timeout", 30, 5)
       /\ cfg.attempts = Capped("attempts", 5, 2)
       /\ cfg.rotate = (\E i \in DOMAIN OptionWords : OptionWords[i].name = "rotate")
       /\ cfg.use_inet6 = (\E i \in DOMAIN OptionWords : OptionWords[i].name = "inet6")

(* A name is taken from the hosts file only if every line of it is well    *)
(* formed: one bad line, wherever it is, sends every name of the file to   *)
(* the name servers. The first line that lists a name gives its address,   *)
(* the host's own name is the loopback address whatever the file says, and *)
(* literal addresses are never looked up.                                  *)
(* The variables keep their types.                                         *)
HostsAllOrNothing ==
  /\ FileTypeOK
  /\ file = "hosts" => \A name \in Names, hostname \in HostNames :
    LET listed == {i \in DOMAIN lines : lines[i] # <<>> /\ name \in Range(Tail(lines[i]))}
        from == usnet_to_socket_addrs(name, hostname)
    IN CASE name \in Addresses -> from = name
         [] name \notin Addresses /\ hostname # NoHostname /\ hostname.name = name -> from = "127.0.0.1"
         [] OTHER -> from = IF /\ loading = "loaded" /\ listed # {}
                               /\ \A i \in DOMAIN lines : WellFormed(lines[i])
                            THEN lines[Min(listed)][1] ELSE "dns"
==============================================================================
