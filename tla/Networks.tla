------------------------------ MODULE Networks ------------------------------
(* The networks that the daemon handles, src/internal/pbr/networks.go: which *)
(* values it accepts and how it writes them.  An address is its four bytes;  *)
(* Go's parsers are taken as right.  What is no IPv4 address or prefix is    *)
(* rejected as a prefix that is too short is, and represented by one.        *)
EXTENDS Integers

minimumPrefixBits == 24
NoPrefix == -1      \* of a value that is an address without "/"

Byte == 0..255
Address == Byte \X Byte \X Byte \X Byte
Value == [ip : Address, ones : {NoPrefix} \cup 0..32]

\* The addresses of a network of each length that is accepted.
Size == [ones \in minimumPrefixBits..32 |->
            <<256, 128, 64, 32, 16, 8, 4, 2, 1>>[ones - 23]]

IsPublicIPv4(v) ==
    /\ ~(v[1] = 0 \/ v[1] = 10 \/ v[1] = 127 \/ v[1] >= 224)
    /\ ~(v[1] = 100 /\ v[2] >= 64 /\ v[2] <= 127)
    /\ ~(v[1] = 169 /\ v[2] = 254)
    /\ ~(v[1] = 172 /\ v[2] >= 16 /\ v[2] <= 31)
    /\ ~(v[1] = 192 /\ (v[2] = 0 \/ v[2] = 168))
    /\ ~(v[1] = 198 /\ (v[2] = 18 \/ v[2] = 19 \/ (v[2] = 51 /\ v[3] = 100)))
    /\ ~(v[1] = 203 /\ v[2] = 0 /\ v[3] = 113)

\* An address with the bits beyond a prefix cleared.
Masked(ip, ones) == <<ip[1], ip[2], ip[3], ip[4] - (ip[4] % Size[ones])>>

\* Mutation: an address gets no prefix.
CanonicalNetworkBare(value) ==
    IF value.ones = NoPrefix THEN value
    ELSE [ip |-> Masked(value.ip, value.ones), ones |-> value.ones]

CanonicalNetwork(value) ==
    IF value.ones = NoPrefix THEN [ip |-> value.ip, ones |-> 32]
    ELSE [ip |-> Masked(value.ip, value.ones), ones |-> value.ones]

lastIPv4(network) ==
    LET ip == network.ip
    IN  <<ip[1], ip[2], ip[3], ip[4] + Size[network.ones] - 1>>

\* The second result of CanonicalNetwork: of a prefix it looks at the first
\* and the last address only.
Accepted(value) ==
    \/ value.ones = NoPrefix /\ IsPublicIPv4(value.ip)
    \/ /\ value.ones >= minimumPrefixBits
       /\ IsPublicIPv4(CanonicalNetwork(value).ip)
       /\ IsPublicIPv4(lastIPv4(CanonicalNetwork(value)))

\* Mutation: what is not accepted is kept.
MergeUnfiltered(values) ==
    {CanonicalNetwork(value) : value \in {v \in values : v.ones \notin 0..23}}

\* Merge drops what is not accepted; groups of values are their union.
Merge(values) == {CanonicalNetwork(value) : value \in {v \in values : Accepted(v)}}

\* ValidateNetworks returns an error or the same as Merge; its limit on their
\* number is WithinLimit of Runtime.
ValidateNetworks(values, hostsOnly) ==
    \A value \in values :
        /\ Accepted(value)
        /\ hostsOnly => CanonicalNetwork(value).ones = 32
=============================================================================
