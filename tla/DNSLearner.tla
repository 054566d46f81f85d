----------------------------- MODULE DNSLearner -----------------------------
(* The DNS proxy, src/internal/pbr/dns_proxy.go: which addresses of an       *)
(* answer it hands to learn, and which answers go out without.  Queries are  *)
(* served concurrently, each in a goroutine; they share the aliases, the     *)
(* CNAME targets that were reached from Netflix names, which live in memory. *)
(*                                                                           *)
(* A record is a CNAME or an A record; others, such as AAAA, pass unseen.    *)
(* A question has one name.  learn is Runtime's: when it returns without an  *)
(* error the networks are routed.                                            *)
EXTENDS Networks, Sequences

CONSTANTS
    Queries,    \* requests served at the same time
    Names,      \* canonical DNS names
    Netflix,    \* those for which isNetflixName holds
    Answers     \* what upstream can send: the answer and extra records

CName == [type : {"CNAME"}, owner : Names, target : Names]
ARecord == [type : {"A"}, owner : Names, ip : Address]

ASSUME DNSAssumption ==
    /\ Netflix \subseteq Names
    /\ Answers \subseteq Seq(CName \cup ARecord)

VARIABLES
    aliases,
    query,          \* what each goroutine is doing
    acknowledged,   \* the networks that a learn without error was called with
    given,          \* history, since the start: CNAME targets sent to clients
    asked,          \* the same: Netflix names of questions
    seen            \* the same: the records inspected

dnsVars == <<aliases, query, acknowledged, given, asked, seen>>

\* At rest, waiting for upstream, for learn, or about to answer.
Phases == {"idle", "exchange", "learn", "answer"}
NoQuery == [phase |-> "idle"]

DNSTypeOK ==
    /\ aliases \subseteq Names /\ given \subseteq Names
    /\ asked \subseteq Netflix
    /\ seen \subseteq CName \cup ARecord
    /\ \A v \in acknowledged :
        v \in Value /\ v.ones = 32 /\ Accepted(v) /\ CanonicalNetwork(v) = v
    /\ \A q \in Queries :
        /\ query[q].phase \in Phases
        /\ query[q].phase # "idle" => query[q].name \in Names

CNames(records) == {r \in records : r.type = "CNAME"}
ARecords(records) == {r \in records : r.type = "A"}

-----------------------------------------------------------------------------
(* inspect *)

\* One pass over the records trusts the target of each CNAME of a trusted
\* owner, also one trusted earlier in the same pass.
Pass(trusted, answer) ==
    LET after[i \in 0..Len(answer)] ==
            IF i = 0 THEN trusted
            ELSE LET r == answer[i]
                     names == after[i - 1]
                 IN  names \cup IF r.type = "CNAME" /\ r.owner \in names
                                THEN {r.target} ELSE {}
    IN  after[Len(answer)]

\* Mutation: one pass is made.
TrustedOnePass(roots, answer) == Pass(roots, answer)

\* Passes are made until one changes nothing: a pass that does trusts a target.
Trusted(roots, answer) ==
    LET after[n \in 0..Len(answer)] ==
            IF n = 0 THEN roots ELSE Pass(after[n - 1], answer)
    IN  after[Len(answer)]

Hosts(names, records) ==
    {[ip |-> r.ip, ones |-> NoPrefix] : r \in {a \in ARecords(records) : a.owner \in names}}

-----------------------------------------------------------------------------
(* ServeDNS *)

\* The names that a set of records leads to: the least set with the roots
\* that holds the targets of its CNAMEs.
Reach(roots, records) ==
    {name \in Names :
        \A S \in SUBSET Names :
            /\ roots \subseteq S
            /\ \A r \in CNames(records) : r.owner \in S => r.target \in S
            => name \in S}

\* A client asks for a Netflix name, for one it was given, or for any other.
Request(q, name) ==
    /\ query[q].phase = "idle"
    /\ query' = [query EXCEPT ![q] =
           [phase |-> "exchange", name |-> name,
            own |-> {name} \cap (Netflix \cup given)]]
    /\ asked' = asked \cup ({name} \cap Netflix)
    /\ UNCHANGED <<aliases, acknowledged, given, seen>>

\* SERVFAIL.
ExchangeFails(q) ==
    /\ query[q].phase = "exchange"
    /\ query' = [query EXCEPT ![q] = NoQuery]
    /\ UNCHANGED <<aliases, acknowledged, given, asked, seen>>

\* Mutation: every name asked for is trusted.
RootsAny(q) == aliases \cup {query[q].name}

\* What inspect begins with, and what it adds to the aliases.  It reads the
\* question in the response, which upstream is taken to repeat as it was asked.
Roots(q) == aliases \cup ({query[q].name} \cap Netflix)
Remembered(roots, trusted) == trusted \ roots

\* own, promised and targets are history: what this client can take for
\* Netflix', the networks it will use for that, and the names it will know.
Inspect(q, answer) ==
    LET trusted == Trusted(Roots(q), answer)
        records == {answer[i] : i \in DOMAIN answer}
        networks == Merge(Hosts(trusted, records))
        reached == Reach(query[q].own, records)
    IN  /\ query[q].phase = "exchange"
        /\ aliases' = aliases \cup Remembered(Roots(q), trusted)
        /\ seen' = seen \cup records
        /\ query' = [query EXCEPT ![q] =
               [phase |-> IF networks = {} THEN "answer" ELSE "learn",
                name |-> query[q].name,
                networks |-> networks,
                promised |-> {h \in Hosts(reached, records) : IsPublicIPv4(h.ip)},
                targets |-> reached]]
        /\ UNCHANGED <<acknowledged, given, asked>>

Learned(q) ==
    /\ query[q].phase = "learn"
    /\ acknowledged' = acknowledged \cup query[q].networks
    /\ query' = [query EXCEPT ![q].phase = "answer", ![q].networks = {}]
    /\ UNCHANGED <<aliases, given, asked, seen>>

\* SERVFAIL; what inspect has remembered stays.
LearnFails(q) ==
    /\ query[q].phase = "learn"
    /\ query' = [query EXCEPT ![q] = NoQuery]
    /\ UNCHANGED <<aliases, acknowledged, given, asked, seen>>

Answer(q) ==
    /\ query[q].phase = "answer"
    /\ given' = given \cup query[q].targets
    /\ query' = [query EXCEPT ![q] = NoQuery]
    /\ UNCHANGED <<aliases, acknowledged, asked, seen>>

\* The daemon stops and starts again: the aliases are forgotten.
Restart ==
    /\ aliases' = {}
    /\ given' = {} /\ asked' = {} /\ seen' = {}
    /\ query' = [q \in Queries |-> NoQuery]
    /\ UNCHANGED acknowledged

DNSInit ==
    /\ aliases = {} /\ given = {} /\ asked = {} /\ seen = {}
    /\ acknowledged = {}
    /\ query = [q \in Queries |-> NoQuery]

DNSNext ==
    \/ \E q \in Queries :
        \/ \E name \in Names : Request(q, name)
        \/ \E answer \in Answers : Inspect(q, answer)
        \/ ExchangeFails(q) \/ Learned(q) \/ LearnFails(q) \/ Answer(q)
    \/ Restart

DNSSpec == DNSInit /\ [][DNSNext]_dnsVars

-----------------------------------------------------------------------------
\* "An address is not returned to the client until the route and exit policy
\* acknowledge it": of the addresses to which a question leads that is for a
\* Netflix name, or for a CNAME target that the proxy has given out since its
\* start, every public one is learned before the answer goes out, whatever
\* the order of its records and whatever is asked at the same time.
AnswersLearned ==
    \A q \in Queries :
        query[q].phase = "answer" =>
            \A host \in query[q].promised : CanonicalNetwork(host) \in acknowledged

\* Nothing else is learned: every network is an address of a name to which the
\* records seen since the start lead from a Netflix name that was asked for.
LearnsOnlyNetflix ==
    LET ours == Merge(Hosts(Reach(asked, seen), seen))
    IN  \A q \in Queries :
            query[q].phase = "learn" => query[q].networks \subseteq ours

\* A private address in an answer does not make it fail: what learn is called
\* with passes its check, but for the limit.
LearnsValid ==
    \A q \in Queries :
        query[q].phase = "learn" => ValidateNetworks(query[q].networks, TRUE)
=============================================================================
