--------------------------- MODULE NetworksProofs ---------------------------
(* Theorems about Networks, for every address and prefix.                   *)
EXTENDS Networks, TLAPS

\* A network is an address without bits beyond its prefix, and holds the
\* addresses that are equal to it up to there.
Network ==
    {c \in Value : /\ c.ones \in minimumPrefixBits..32
                   /\ c.ip = Masked(c.ip, c.ones)}
InNetwork(v, network) == Masked(v, network.ones) = network.ip

\* Clearing the last bits of a byte leaves a byte, and is done at once.
LEMMA MaskByte ==
    ASSUME NEW d \in Byte, NEW ones \in minimumPrefixBits..32
    PROVE  /\ d - (d % Size[ones]) \in Byte
           /\ (d - (d % Size[ones])) % Size[ones] = 0
           /\ Size[32] = 1
<1>1. PICK s : s = Size[ones]
  OBVIOUS
<1>2. s \in {256, 128, 64, 32, 16, 8, 4, 2, 1} /\ Size[32] = 1
  BY <1>1 DEF Size, minimumPrefixBits
<1>3. d - (d % s) \in Byte /\ (d - (d % s)) % s = 0
  <2>1. CASE s = 256 BY <2>1 DEF Byte
  <2>2. CASE s = 128 BY <2>2 DEF Byte
  <2>3. CASE s = 64 BY <2>3 DEF Byte
  <2>4. CASE s = 32 BY <2>4 DEF Byte
  <2>5. CASE s = 16 BY <2>5 DEF Byte
  <2>6. CASE s = 8 BY <2>6 DEF Byte
  <2>7. CASE s = 4 BY <2>7 DEF Byte
  <2>8. CASE s = 2 BY <2>8 DEF Byte
  <2>9. CASE s = 1 BY <2>9 DEF Byte
  <2> QED BY <1>2, <2>1, <2>2, <2>3, <2>4, <2>5, <2>6, <2>7, <2>8, <2>9
<1> QED BY <1>1, <1>2, <1>3

\* A masked address is an address, and masking it again changes nothing.
LEMMA MaskedForm ==
    ASSUME NEW ip \in Address, NEW ones \in minimumPrefixBits..32
    PROVE  /\ Masked(ip, ones) \in Address
           /\ Masked(Masked(ip, ones), ones) = Masked(ip, ones)
<1>1. /\ ip[1] \in Byte /\ ip[2] \in Byte /\ ip[3] \in Byte /\ ip[4] \in Byte
  BY DEF Address
<1>2. PICK d : d = ip[4] - (ip[4] % Size[ones])
  OBVIOUS
<1>3. d \in Byte /\ d % Size[ones] = 0
  BY <1>1, <1>2, MaskByte
<1>4. Masked(ip, ones) = <<ip[1], ip[2], ip[3], d>>
  BY <1>2 DEF Masked
<1>5. d - (d % Size[ones]) = d
  BY <1>3 DEF Byte
<1>6. Masked(<<ip[1], ip[2], ip[3], d>>, ones) = <<ip[1], ip[2], ip[3], d>>
  BY <1>5 DEF Masked
<1> QED BY <1>1, <1>3, <1>4, <1>6 DEF Address

\* What is accepted is written as a network.
LEMMA CanonicalForm ==
    ASSUME NEW value \in Value, Accepted(value)
    PROVE  CanonicalNetwork(value) \in Network
<1>1. value.ip \in Address /\ value.ones \in {NoPrefix} \cup 0..32
  BY DEF Value
<1>2. CASE value.ones = NoPrefix
  <2>1. CanonicalNetwork(value) = [ip |-> value.ip, ones |-> 32]
    BY <1>2 DEF CanonicalNetwork
  <2>2. /\ value.ip[4] \in Byte /\ Size[32] = 1
        /\ value.ip = <<value.ip[1], value.ip[2], value.ip[3], value.ip[4]>>
    BY <1>1, MaskByte DEF Address, minimumPrefixBits
  <2>3. value.ip[4] - (value.ip[4] % 1) = value.ip[4]
    BY <2>2 DEF Byte
  <2>4. Masked(value.ip, 32) = value.ip
    BY <2>2, <2>3 DEF Masked
  <2> QED BY <1>1, <2>1, <2>4 DEF Network, Value, minimumPrefixBits
<1>3. CASE value.ones # NoPrefix
  <2>1. value.ones \in minimumPrefixBits..32
    BY <1>1, <1>3 DEF Accepted, minimumPrefixBits, NoPrefix
  <2>2. CanonicalNetwork(value) = [ip |-> Masked(value.ip, value.ones), ones |-> value.ones]
    BY <1>3 DEF CanonicalNetwork
  <2> QED BY <1>1, <2>1, <2>2, MaskedForm DEF Network, Value
<1> QED BY <1>2, <1>3

\* A network is its own canonical form.
LEMMA CanonicalFixed ==
    ASSUME NEW c \in Network
    PROVE  CanonicalNetwork(c) = c
<1>1. c \in Value /\ c.ones # NoPrefix /\ Masked(c.ip, c.ones) = c.ip
  BY DEF Network, minimumPrefixBits, NoPrefix
<1>2. CanonicalNetwork(c) = [ip |-> c.ip, ones |-> c.ones]
  BY <1>1 DEF CanonicalNetwork
<1> QED BY <1>1, <1>2 DEF Value

\* Its first and last address have been looked at.
LEMMA CanonicalEnds ==
    ASSUME NEW value \in Value, Accepted(value),
           NEW c, c = CanonicalNetwork(value)
    PROVE  IsPublicIPv4(c.ip) /\ IsPublicIPv4(lastIPv4(c))
<1>1. CASE value.ones = NoPrefix
  <2>1. IsPublicIPv4(value.ip)
    BY <1>1 DEF Accepted, NoPrefix, minimumPrefixBits
  <2>2. c = [ip |-> value.ip, ones |-> 32]
    BY <1>1 DEF CanonicalNetwork
  <2>3. value.ip \in Address /\ value.ip[4] \in Byte
    BY DEF Value, Address
  <2>4. Size[32] = 1
    BY <2>3, MaskByte DEF minimumPrefixBits
  <2>5. value.ip[4] + 1 - 1 = value.ip[4]
    BY <2>3 DEF Byte
  <2>6. lastIPv4(c) = value.ip
    BY <2>2, <2>3, <2>4, <2>5 DEF lastIPv4, Address
  <2> QED BY <2>1, <2>2, <2>6
<1>2. CASE value.ones # NoPrefix
  BY <1>2 DEF Accepted
<1> QED BY <1>1, <1>2

-----------------------------------------------------------------------------
\* What is accepted is written in one way: CanonicalNetwork accepts its own
\* result and leaves it as it is, so that saved, reported and fetched networks
\* pass their next check unchanged.
THEOREM CanonicalIdempotent ==
    ASSUME NEW value \in Value, Accepted(value)
    PROVE  /\ Accepted(CanonicalNetwork(value))
           /\ CanonicalNetwork(CanonicalNetwork(value)) = CanonicalNetwork(value)
<1>1. PICK c : c = CanonicalNetwork(value)
  OBVIOUS
<1>2. c \in Network
  BY <1>1, CanonicalForm
<1>3. CanonicalNetwork(c) = c
  BY <1>2, CanonicalFixed
<1>4. IsPublicIPv4(c.ip) /\ IsPublicIPv4(lastIPv4(c))
  BY <1>1, CanonicalEnds
<1>5. c.ones >= minimumPrefixBits
  BY <1>2 DEF Network, minimumPrefixBits
<1>6. Accepted(c)
  BY <1>3, <1>4, <1>5 DEF Accepted
<1> QED BY <1>1, <1>3, <1>6

\* No network that is accepted holds an address that is not public, though of
\* its addresses CanonicalNetwork looks at two only: no route that the daemon
\* installs takes private or reserved destinations into the tunnel.
THEOREM AcceptedIsPublic ==
    ASSUME NEW value \in Value, Accepted(value),
           NEW v \in Address, InNetwork(v, CanonicalNetwork(value))
    PROVE  IsPublicIPv4(v)
<1>1. PICK c : c = CanonicalNetwork(value)
  OBVIOUS
<1>2. Masked(v, c.ones) = c.ip
  BY <1>1 DEF InNetwork
<1>3. c.ip[1] = v[1] /\ c.ip[2] = v[2] /\ c.ip[3] = v[3]
  BY <1>2 DEF Masked
<1>4. IsPublicIPv4(c.ip)
  BY <1>1, CanonicalEnds
<1> QED BY <1>3, <1>4 DEF IsPublicIPv4
=============================================================================
