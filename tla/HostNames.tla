------------------------------- MODULE HostNames -------------------------------
(***************************************************************************)
(* How the control plane puts host names together and takes them apart.  A *)
(* subdomain row is a prefix of a registered and verified domain; its host *)
(* is the two joined, which is what the live map, an agent's register      *)
(* frame and a visitor name.  Bindings takes one host for one row: this    *)
(* module says when that is so.                                            *)
(*                                                                         *)
(* A name is the sequence of its labels.  The calls are those of any user; *)
(* a domain that is registered again is registered by the user who had it, *)
(* whose txt_token is the same.                                            *)
(***************************************************************************)
EXTENDS Naturals, Sequences, FiniteSets

CONSTANTS Labels,
          Osm, Star,    \* the labels "_osm" and "*", which no registered name has
          Cname,        \* the data of a CNAME record to the tunnel host (cname_target)
          MaxLabels,    \* bound: labels of a registered domain
          MaxNames,     \* bound: domains, and subdomain rows, at a time
          MaxRecords    \* bound: records in the DNS at a time

ASSUME MarksAreNoLabels == {Osm, Star} \cap Labels = {} /\ Osm # Star
ASSUME CnameIsNoName == Cname \notin Seq(Labels)
ASSUME NameBoundsAreNat == {MaxLabels, MaxNames, MaxRecords} \subseteq Nat

VARIABLES
    registered,   \* fqdns of the domain rows
    verified,     \* those of them with dns_status "verified"
    subs,         \* the subdomain rows, <<prefix, fqdn>>
    records       \* the DNS: <<name, data>>, a token's data being the fqdn it is for

names == <<registered, verified, subs, records>>

\* ValidateFQDN: at least two labels.
Fqdns == UNION {[1..n -> Labels] : n \in 2..MaxLabels}

\* Faulty variant: a prefix may hold a dot, as in hostBoundToDevice's example.
PrefixesDotted == UNION {[1..n -> Labels] : n \in 0..2}

\* prefixRE: empty, or one label.
Prefixes == UNION {[1..n -> Labels] : n \in 0..1}

\* hostnameOf, and liveMapKey behind its "live:".
HostOf(row) == row[1] \o row[2]

NamesTypeOK == /\ registered \in SUBSET Fqdns /\ verified \in SUBSET registered
               /\ subs \in SUBSET (Prefixes \X verified)
               /\ \A r \in records : r[1] \in Seq(Labels \cup {Osm, Star})

NamesInit == registered = {} /\ verified = {} /\ subs = {} /\ records = {}

-----------------------------------------------------------------------------
(* proxyingest: host names taken apart.                                    *)

UpTo(s, i) == [j \in 1..i |-> s[j]]
From(s, i) == [j \in 1..(Len(s) - i) |-> s[i + j]]

\* The rows that hostBoundToDevice asks for, with the device: every split of the host.
Splits(host) == {<<UpTo(host, i), From(host, i)>> : i \in 0..(Len(host) - 1)}

\* Faulty variant: the first dot from the right is taken for the second.
SplitHostLate(host) ==
    LET n == Len(host) IN
    IF n < 2 THEN <<<<>>, host>> ELSE <<UpTo(host, n - 1), From(host, n - 1)>>

\* The row that TunnelStart asks for: the domain is the two rightmost labels.
SplitHost(host) ==
    LET n == Len(host) IN
    IF n < 3 THEN <<<<>>, host>> ELSE <<UpTo(host, n - 2), From(host, n - 2)>>

-----------------------------------------------------------------------------
(* The records the owner is told to add, and those that are read.          *)

\* A registrar's Host field: the zone is appended to it, and "@" stands for no label.
InZone(zone, host) == host \o zone

\* What an address record holds, where a token is the fqdn it is for.
Here == <<>>

\* Faulty variant: the wildcard record is left out.
GuideNoWildcard(f, zone) == {<<InZone(zone, <<>>), Here>>, <<InZone(zone, <<Osm>>), f>>}

\* DnsRegistrarGuide: two addresses and the txt_token of f, typed into a zone's panel.
Guide(f, zone) ==
    {<<InZone(zone, <<>>), Here>>, <<InZone(zone, <<Star>>), Here>>,
     <<InZone(zone, <<Osm>>), f>>}

\* DnsRecordsHelp, the guide of old: its names are relative to the two rightmost labels,
\* which makes them the domain's own.
OldGuide(f) == {<<f, Cname>>, <<<<Osm>> \o f, f>>}

\* checkRecords: the token at _osm.<fqdn>, the CNAME, or the token at the apex.
Proofs(f) == OldGuide(f) \cup {<<f, f>>}
CheckRecords(f) == Proofs(f) \cap records # {}

\* DNS: what stands at a name, and whether the name exists, as it does above a record.
DataAt(name) == {r[2] : r \in {x \in records : x[1] = name}}
Exists(name) == \E r \in records : \E i \in 0..Len(r[1]) : From(r[1], i) = name

\* DNS: a host that exists has what stands there, and another what stands at the wildcard
\* below the closest name above it that exists.
Resolves(host) ==
    LET leads(name) == DataAt(name) \cap {Here, Cname} # {}
        encloses(i) == Exists(From(host, i)) /\ \A j \in 0..(i - 1) : ~Exists(From(host, j))
    IN  \/ leads(host)
        \/ \E i \in 1..Len(host) : encloses(i) /\ leads(<<Star>> \o From(host, i))

-----------------------------------------------------------------------------
(* The calls.  Create asks only that the fqdn is not taken.                *)

RegisterDomain(f) == /\ f \in Fqdns \ registered /\ Cardinality(registered) < MaxNames
                     /\ registered' = registered \cup {f}
                     /\ UNCHANGED <<verified, subs, records>>

\* The owner adds one record of a guide, in a zone the domain lies in, or the token at the
\* apex.  Nothing stands beside a CNAME.
AddRecord(f) == /\ f \in registered /\ Cardinality(records) < MaxRecords
                /\ \E i \in 0..(Len(f) - 2) : \E r \in Guide(f, From(f, i)) \cup Proofs(f) :
                     /\ DataAt(r[1]) = {} \/ (r[2] # Cname /\ Cname \notin DataAt(r[1]))
                     /\ records' = records \cup {r}
                /\ UNCHANGED <<registered, verified, subs>>

\* ... and takes any out, at any time.
RemoveRecord(r) == records' = records \ {r} /\ UNCHANGED <<registered, verified, subs>>

VerifyDomain(f) == /\ f \in registered /\ CheckRecords(f)
                   /\ verified' = verified \cup {f}
                   /\ UNCHANGED <<registered, subs, records>>

\* Faulty variant: the domain need not be verified.
CreateRowEarly(p, f) == /\ f \in registered /\ Cardinality(subs) < MaxNames
                        /\ subs' = subs \cup {<<p, f>>}
                        /\ UNCHANGED <<registered, verified, records>>

\* The subdomain row is made, or is there already.
CreateSubdomainRow(p, f) == /\ f \in verified /\ Cardinality(subs) < MaxNames
                            /\ subs' = subs \cup {<<p, f>>}
                            /\ UNCHANGED <<registered, verified, records>>

\* The rows go with their domain; the records in the zone stay.
DeleteDomainRow(f) == /\ f \in registered
                      /\ registered' = registered \ {f} /\ verified' = verified \ {f}
                      /\ subs' = {r \in subs : r[2] # f}
                      /\ UNCHANGED records

NamesNext ==
    \/ \E f \in Fqdns : \/ RegisterDomain(f) \/ AddRecord(f)
                        \/ VerifyDomain(f) \/ DeleteDomainRow(f)
                        \/ \E p \in Prefixes : CreateSubdomainRow(p, f)
    \/ \E r \in records : RemoveRecord(r)

NamesSpec == NamesInit /\ [][NamesNext]_names

-----------------------------------------------------------------------------
\* Two rows have one host, so that two devices can be bound to it, one live key serves
\* both and VerifyDevice accepts either, only if one row is the apex of a domain that is
\* the other row's host: no two rows of domains that do not nest clash, wherever the
\* dots are (hostBoundToDevice, prefixRE).
Nested(r, s) == r[1] = <<>> /\ s[1] # <<>> /\ r[2] = s[1] \o s[2]
RowsClashIfNested ==
    \A r, s \in subs :
        r # s /\ s \in Splits(HostOf(r)) => Nested(r, s) \/ Nested(s, r)

\* TunnelStart records the row that VerifyDevice accepted exactly if the row's domain has
\* two labels; for a longer one it finds no row, or another domain's (splitHost).
SplitFindsTwoLabels ==
    \A r \in subs : SplitHost(HostOf(r)) = r <=> Len(r[2]) = 2

\* The guides and checkRecords agree on the names, whatever other records the domains of
\* other users, above or below, have.  Once the guide is complete in a domain's own zone
\* the domain can be verified and all its hosts lead to the proxy, but for a host below
\* which a nested domain has begun its own guide and not finished it: what stands there
\* hides the wildcard.  The guide of old leads its apex here.  A row for another domain, or
\* one typed into a parent's zone, proves nothing.
Complete(f) == Guide(f, f) \subseteq records
LeadsHere(host) == Resolves(host) \/ (Exists(host) /\ ~Complete(host))
GuideLeadsHere ==
    \A f \in registered :
        /\ Complete(f) => CheckRecords(f) /\ \A p \in Prefixes : LeadsHere(p \o f)
        /\ OldGuide(f) \subseteq records => CheckRecords(f) /\ Resolves(f)
        /\ \A g \in registered : \A i \in 0..(Len(g) - 2) :
               <<g, From(g, i)>> # <<f, f>> => Guide(g, From(g, i)) \cap Proofs(f) = {}
===============================================================================
