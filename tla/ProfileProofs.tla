--------------------------- MODULE ProfileProofs ----------------------------
(***************************************************************************)
(* Proofs about the operators of Profile, ProfileOutputs and Metadata, for *)
(* bodies of any length with any entries: which nodes a body gives, where  *)
(* an id leads, which files validate, and what the last of some directives *)
(* says.                                                                   *)
(***************************************************************************)
EXTENDS ProfileOutputs, Metadata, FiniteSetTheorems, TLAPS

-----------------------------------------------------------------------------
(* Positions                                                               *)

\* A set of natural numbers has a least element.
LEMMA LeastPosition ==
  ASSUME NEW S \in SUBSET Nat, S # {}
  PROVE  \E i \in S : \A j \in S : i <= j
  <1>1. PICK i \in S : \A j \in S : ~ (<<j, i>> \in OpToRel(<, Nat))
    BY NatLessThanWellFounded, WFMin
  <1>2. \A j \in S : ~ (j < i)
    BY <1>1 DEF OpToRel
  <1>3. QED
    BY <1>2

\* Positions up to n have a greatest one: the least distance from n.
LEMMA GreatestPosition ==
  ASSUME NEW n \in Nat, NEW S \in SUBSET (1 .. n), S # {}
  PROVE  \E i \in S : \A j \in S : i >= j
  <1> DEFINE D == {n - i : i \in S}
  <1>1. D \in SUBSET Nat /\ D # {}
    <2>1. \A i \in S : n - i \in Nat
      OBVIOUS
    <2>2. D # {}
      OBVIOUS
    <2>3. QED
      BY <2>1, <2>2
  <1>2. PICK d \in D : \A e \in D : d <= e
    BY <1>1, LeastPosition
  <1>3. PICK i \in S : d = n - i
    BY <1>2
  <1>4. \A j \in S : i >= j
    BY <1>2, <1>3
  <1>5. QED
    BY <1>4

\* Positions up to i, of some in 1 .. n.
UpTo(K, i) == {j \in K : j <= i}

\* Every position of a set is the n-th for exactly one n up to the size of the
\* set, and every such n has a position.
LEMMA NthPosition ==
  ASSUME NEW n \in Nat, NEW K \in SUBSET (1 .. n)
  PROVE  /\ Cardinality(K) \in Nat
         /\ \A m \in 1 .. Cardinality(K) : Nth(K, m) \in K
         /\ \A i \in K : \E m \in 1 .. Cardinality(K) : Nth(K, m) = i
  <1> DEFINE rank == [i \in K |-> Cardinality(UpTo(K, i))]
  <1>1. IsFiniteSet(K) /\ Cardinality(K) \in Nat
    <2>1. IsFiniteSet(1 .. n)
      BY FS_Interval
    <2>2. IsFiniteSet(K)
      BY <2>1, FS_Subset
    <2>3. QED
      BY <2>2, FS_CardinalityType
  <1>2. ASSUME NEW i \in K
        PROVE  rank[i] \in 1 .. Cardinality(K)
    <2>1. UpTo(K, i) \in SUBSET K /\ i \in UpTo(K, i)
      BY DEF UpTo
    <2>2. IsFiniteSet(UpTo(K, i)) /\ Cardinality(UpTo(K, i)) <= Cardinality(K)
      BY <1>1, <2>1, FS_Subset
    <2>3. Cardinality(UpTo(K, i)) \in Nat /\ Cardinality(UpTo(K, i)) # 0
      BY <2>1, <2>2, FS_CardinalityType, FS_EmptySet
    <2>4. QED
      BY <1>1, <2>2, <2>3
  <1>3. ASSUME NEW i \in K, NEW j \in K, i < j
        PROVE  rank[i] # rank[j]
    <2>1. UpTo(K, i) \in SUBSET UpTo(K, j)
      <3>1. \A k \in K : k <= i => k <= j
        BY <1>3
      <3>2. QED
        BY <3>1 DEF UpTo
    <2>2. j \in UpTo(K, j) /\ j \notin UpTo(K, i)
      BY <1>3 DEF UpTo
    <2>3. UpTo(K, j) \in SUBSET K
      BY DEF UpTo
    <2>4. IsFiniteSet(UpTo(K, j))
      BY <1>1, <2>3, FS_Subset
    <2>5. Cardinality(UpTo(K, i)) # Cardinality(UpTo(K, j))
      BY <2>1, <2>2, <2>4, FS_Subset
    <2>6. QED
      BY <2>5
  <1>4. \A i, j \in K : rank[i] = rank[j] => i = j
    <2> SUFFICES ASSUME NEW i \in K, NEW j \in K, i # j
                 PROVE  rank[i] # rank[j]
      OBVIOUS
    <2>1. i < j \/ j < i
      OBVIOUS
    <2>2. QED
      BY <1>3, <2>1
  <1>5. rank \in Injection(K, 1 .. Cardinality(K))
    <2>1. rank \in [K -> 1 .. Cardinality(K)]
      BY <1>2
    <2>2. QED
      BY <1>4, <2>1 DEF Injection, IsInjective
  <1>6. rank \in Surjection(K, 1 .. Cardinality(K))
    <2>1. /\ IsFiniteSet(1 .. Cardinality(K))
          /\ Cardinality(1 .. Cardinality(K)) = Cardinality(K)
      BY <1>1, FS_Interval
    <2>2. QED
      BY <1>5, <2>1, FS_Injection
  <1>7. ASSUME NEW m \in 1 .. Cardinality(K)
        PROVE  Nth(K, m) \in K /\ rank[Nth(K, m)] = m
    <2>1. \E i \in K : Cardinality(UpTo(K, i)) = m
      BY <1>6 DEF Surjection
    <2>2. Nth(K, m) \in K /\ Cardinality(UpTo(K, Nth(K, m))) = m
      BY <2>1 DEF Nth, UpTo
    <2>3. QED
      BY <2>2
  <1>8. ASSUME NEW i \in K
        PROVE  \E m \in 1 .. Cardinality(K) : Nth(K, m) = i
    <2>1. rank[i] \in 1 .. Cardinality(K)
      BY <1>2
    <2>2. Nth(K, rank[i]) = i
      BY <1>4, <1>7, <2>1
    <2>3. QED
      BY <2>1, <2>2
  <1>9. QED
    BY <1>1, <1>7, <1>8

-----------------------------------------------------------------------------
(* The nodes of a body                                                     *)

\* A body of any length.
IsBody(body) == body.form \in Forms /\ body.entries \in Seq(ToSet(body.entries))

\* Every error of a raw node is skipped: normalize loses no other with it.
LEMMA NormalizeSkips ==
  ASSUME NEW body
  PROVE  Normalize(body) = {i \in RawNodes(body) : Normalizes(body.form, body.entries[i])}
  <1> DEFINE failing == {i \in RawNodes(body) : ~Normalizes(body.form, body.entries[i])}
  <1>1. ASSUME NEW form, NEW e
        PROVE  ErrorKind(form, e) \in Skippable
    <2>1. CASE form = "clash"
      BY <2>1 DEF ErrorKind, Skippable
    <2>2. CASE form # "clash" /\ Protocol(e.scheme) \notin Supported \cup {"himera"}
      BY <2>2 DEF ErrorKind, Skippable
    <2>3. CASE form # "clash" /\ Protocol(e.scheme) \in Supported \cup {"himera"}
      <3> DEFINE p == Protocol(e.scheme)
      <3>1. CASE p \in {"vmess", "himera"}
        BY <2>3, <3>1 DEF ErrorKind, Skippable
      <3>2. CASE p \notin {"vmess", "himera"}
        BY <2>3, <3>2 DEF ErrorKind, Skippable
      <3>3. QED
        BY <3>1, <3>2
    <2>4. QED
      BY <2>1, <2>2, <2>3
  <1>2. \A i \in failing : ErrorKind(body.form, body.entries[i]) \in Skippable
    BY <1>1
  <1>3. Normalize(body) = RawNodes(body) \ failing
    BY <1>2 DEF Normalize
  <1>4. QED
    BY <1>3

LEMMA BodyPositions ==
  ASSUME NEW body, IsBody(body)
  PROVE  /\ Len(body.entries) \in Nat
         /\ DOMAIN body.entries = 1 .. Len(body.entries)
         /\ RawNodes(body) \in SUBSET (1 .. Len(body.entries))
         /\ Normalize(body) \in SUBSET (1 .. Len(body.entries))
         /\ Usable(body) \in SUBSET (1 .. Len(body.entries))
  <1>1. /\ Len(body.entries) \in Nat
        /\ DOMAIN body.entries = 1 .. Len(body.entries)
    BY DEF IsBody
  <1>2. RawNodes(body) \in SUBSET (DOMAIN body.entries)
    BY DEF RawNodes, ClashNodes, UriNodes
  <1>3. QED
    BY <1>1, <1>2, NormalizeSkips DEF Usable

\* The nodes at some positions are those of the entries there, each at least once.
LEMMA NodesAtFacts ==
  ASSUME NEW body, IsBody(body), NEW K \in SUBSET (1 .. Len(body.entries))
  PROVE  /\ Len(NodesAt(body, K)) \in Nat
         /\ DOMAIN NodesAt(body, K) = 1 .. Len(NodesAt(body, K))
         /\ \A m \in DOMAIN NodesAt(body, K) :
              \E i \in K : NodesAt(body, K)[m] = Node(body.form, body.entries[i])
         /\ ToSet(NodesAt(body, K)) = {Node(body.form, body.entries[i]) : i \in K}
         /\ NodesAt(body, K) = <<>> <=> K = {}
  <1> DEFINE nodes == NodesAt(body, K)
  <1>1. /\ Cardinality(K) \in Nat
        /\ \A m \in 1 .. Cardinality(K) : Nth(K, m) \in K
        /\ \A i \in K : \E m \in 1 .. Cardinality(K) : Nth(K, m) = i
    BY BodyPositions, NthPosition
  <1>2. /\ DOMAIN nodes = 1 .. Cardinality(K)
        /\ \A m \in 1 .. Cardinality(K) :
             nodes[m] = Node(body.form, body.entries[Nth(K, m)])
    BY DEF NodesAt
  <1>3. Len(nodes) = Cardinality(K)
    BY <1>1, <1>2
  <1>4. \A m \in DOMAIN nodes : \E i \in K : nodes[m] = Node(body.form, body.entries[i])
    BY <1>1, <1>2
  <1>5. ToSet(nodes) = {Node(body.form, body.entries[i]) : i \in K}
    BY <1>1, <1>2, <1>4 DEF ToSet
  <1>6. nodes = <<>> <=> K = {}
    <2>1. nodes = <<>> => K = {}
      BY <1>1, <1>2
    <2>2. K = {} => Cardinality(K) = 0
      BY FS_EmptySet
    <2>3. Cardinality(K) = 0 => nodes = <<>>
      BY DEF NodesAt
    <2>4. QED
      BY <2>1, <2>2, <2>3
  <1>7. QED
    BY <1>1, <1>2, <1>3, <1>4, <1>5, <1>6

\* Whether an entry gives a node does not depend on the others: a URI that was
\* seen before gives the node it gave the first time.
Gives(form, e) ==
  /\ CASE form = "clash" -> e.server \notin {Absent, ""} /\ U16(e.port) /\ e.port # 0
       [] form \in {"broken", "page"} -> FALSE
       [] OTHER -> e.scheme \in UriSchemes
  /\ Normalizes(form, e)
  /\ ~IsPlaceholder(Node(form, e))

\* A usable entry gives a node; one that gives a node is usable, there or where
\* its URI occurs first.
LEMMA UsableGives ==
  ASSUME NEW body, IsBody(body)
  PROVE  /\ \A i \in Usable(body) : Gives(body.form, body.entries[i])
         /\ \A i \in DOMAIN body.entries :
              Gives(body.form, body.entries[i]) =>
                \E j \in Usable(body) : body.entries[j] = body.entries[i]
  <1>1. ASSUME NEW i \in Usable(body)
        PROVE  Gives(body.form, body.entries[i])
    BY <1>1, NormalizeSkips DEF Usable, RawNodes, ClashNodes, UriNodes, Gives
  <1>2. ASSUME NEW i \in DOMAIN body.entries, Gives(body.form, body.entries[i])
        PROVE  \E j \in Usable(body) : body.entries[j] = body.entries[i]
    <2> DEFINE same == {j \in DOMAIN body.entries : body.entries[j] = body.entries[i]}
    <2>1. same \in SUBSET Nat /\ i \in same
      BY BodyPositions
    <2>2. PICK j \in same : \A k \in same : j <= k
      BY <2>1, LeastPosition
    <2>3. \A k \in 1 .. j - 1 : body.entries[k] # body.entries[j]
      BY <2>1, <2>2, BodyPositions
    <2>4. j \in RawNodes(body)
      BY <1>2, <2>2, <2>3 DEF RawNodes, ClashNodes, UriNodes, Gives
    <2>5. j \in Usable(body)
      BY <1>2, <2>2, <2>4, NormalizeSkips DEF Usable, Gives
    <2>6. QED
      BY <2>2, <2>5
  <1>3. QED
    BY <1>1, <1>2

\* The profile of a body holds the nodes its entries give, no more, no less.
LEMMA UsableNodesAre ==
  ASSUME NEW body, IsBody(body)
  PROVE  ToSet(UsableNodes(body)) =
           {Node(body.form, e) : e \in {d \in ToSet(body.entries) : Gives(body.form, d)}}
  <1>1. ToSet(UsableNodes(body)) = {Node(body.form, body.entries[i]) : i \in Usable(body)}
    BY BodyPositions, NodesAtFacts DEF UsableNodes
  <1>2. Usable(body) \subseteq DOMAIN body.entries
    BY BodyPositions
  <1>3. QED
    BY <1>1, <1>2, UsableGives DEF ToSet

-----------------------------------------------------------------------------
(* Ids                                                                     *)

\* The first match is a match; without one the answer is 0.
LEMMA SelectNodeFacts ==
  ASSUME NEW nodes, NEW id, Len(nodes) \in Nat
  PROVE  IF \E i \in 1 .. Len(nodes) : nodes[i].id = id
           THEN /\ SelectNode(nodes, id) \in 1 .. Len(nodes)
                /\ nodes[SelectNode(nodes, id)].id = id
           ELSE SelectNode(nodes, id) = 0
  <1> DEFINE I == {i \in 1 .. Len(nodes) : nodes[i].id = id}
  <1>1. SelectNode(nodes, id) = IF I # {} THEN Min(I) ELSE 0
    BY DEF SelectNode, SelectInSeq
  <1>2. I # {} => Min(I) \in I
    <2> HAVE I # {}
    <2>1. I \in SUBSET Nat
      OBVIOUS
    <2>2. \E i \in I : \A j \in I : i <= j
      BY <2>1, LeastPosition
    <2>3. QED
      BY <2>2 DEF Min
  <1>3. QED
    BY <1>1, <1>2

\* Redaction changes no id.
LEMMA RedactionKeepsIds ==
  ASSUME NEW form, NEW e
  PROVE  Redacted(Node(form, e)).id = Node(form, e).id
  BY DEF Redacted, Node

\* Entries with the same id give the same outbound, apart from its TLS block and
\* its options.
LEMMA IdDetermines ==
  ASSUME NEW form, NEW d, NEW e, Node(form, d).id = Node(form, e).id
  PROVE  /\ Node(form, d).protocol = Node(form, e).protocol
         /\ \A field \in {"protocol", "server", "port", "secret", "transport"} :
              Outbound(Node(form, d))[field] = Outbound(Node(form, e))[field]
  <1>1. /\ Node(form, d).protocol = Node(form, e).protocol
        /\ Node(form, d).server = Node(form, e).server
        /\ Node(form, d).port = Node(form, e).port
        /\ Node(form, d).credentials = Node(form, e).credentials
        /\ Node(form, d).transport = Node(form, e).transport
    BY DEF Node, Id
  <1>2. QED
    BY <1>1 DEF Outbound

\* An outbound has the server of the entry it was made of, and its secret unless
\* that is in a URI with user:pass or percent-encoding.
LEMMA OutboundOf ==
  ASSUME NEW form, NEW e, Normalizes(form, e), Node(form, e).protocol \in Supported
  PROVE  /\ Outbound(Node(form, e)).server = e.server
         /\ \/ Outbound(Node(form, e)).secret = OrElse(e.secret, "")
            \/ /\ form # "clash" /\ Protocol(e.scheme) \in {"trojan", "hysteria2"}
               /\ e.pass # Absent \/ e.secret \in DOMAIN UriText
  <1> DEFINE p == Protocol(e.scheme)
  <1>1. /\ Node(form, e).protocol = p
        /\ Node(form, e).server = e.server
        /\ Node(form, e).credentials = CredentialsOf(form, e)
    BY DEF Node
  <1>2. \/ CredentialsOf(form, e)[2] = OrElse(e.secret, "")
        \/ /\ form # "clash" /\ p \in {"trojan", "hysteria2"}
           /\ e.pass # Absent \/ e.secret \in DOMAIN UriText
    <2>1. CASE p \in {"vless", "vmess"}
      BY <2>1, ProfileAssumption DEF Normalizes, CredentialsOf, OrElse
    <2>2. CASE p = "ss" \/ (form = "clash" /\ p \in {"trojan", "hysteria2"})
      BY <2>2 DEF CredentialsOf
    <2>3. CASE form # "clash" /\ p \in {"trojan", "hysteria2"}
      <3>1. CredentialsOf(form, e)[2] = Encoded(UserOrPass(e)) /\ UserOrPass(e) # ""
        BY <2>3 DEF CredentialsOf, Normalizes
      <3>2. CASE e.secret \in {Absent, ""}
        <4>1. e.pass # Absent
          BY <3>1, <3>2 DEF UserOrPass, OrElse
        <4>2. QED
          BY <2>3, <4>1
      <3>3. CASE e.secret \notin {Absent, ""}
        <4>1. UserOrPass(e) = e.secret /\ OrElse(e.secret, "") = e.secret
          BY <3>3 DEF UserOrPass, OrElse
        <4>2. e.secret \notin DOMAIN UriText => Encoded(e.secret) = e.secret
          BY DEF Encoded
        <4>3. QED
          BY <2>3, <3>1, <4>1, <4>2
      <3>4. QED
        BY <3>2, <3>3
    <2>4. QED
      BY <1>1, <2>1, <2>2, <2>3 DEF Supported
  <1>3. QED
    BY <1>1, <1>2 DEF Outbound

-----------------------------------------------------------------------------
(* Written files                                                           *)

\* A profile written for a body holds nodes of entries that normalize.
LEMMA WrittenAt ==
  ASSUME NEW body, IsBody(body), NEW nodes \in Written(body), nodes # <<>>
  PROVE  \E K \in SUBSET Normalize(body) : nodes = NodesAt(body, K)
  <1>1. Usable(body) \in SUBSET Normalize(body)
    BY DEF Usable
  <1>2. QED
    BY <1>1 DEF Written, Converted, UsableNodes

\* The default ports are not 0.
LEMMA PortZeroIsStated ==
  ASSUME NEW form, NEW e, PortOf(form, e) = 0
  PROVE  e.port = 0
  <1> DEFINE defaulted == form # "clash" /\ Protocol(e.scheme) = "himera" /\ ~U16(e.port)
  <1>1. CASE defaulted
    BY <1>1 DEF PortOf
  <1>2. CASE ~defaulted
    <2>1. PortOf(form, e) = OrElse(e.port, 443)
      BY <1>2 DEF PortOf
    <2>2. QED
      BY <2>1 DEF OrElse
  <1>3. QED
    BY <1>1, <1>2

\* Only the port 0 and the empty or blank server of an entry make an invalid node,
\* and of these the Clash parser lets only blanks pass.
LEMMA InvalidNode ==
  ASSUME NEW body, IsBody(body), NEW i \in Normalize(body), NEW n,
         n = Node(body.form, body.entries[i]), n.server \in {"", Blank} \/ n.port = 0
  PROVE  \/ /\ body.form # "clash"
            /\ body.entries[i].port = 0 \/ body.entries[i].server = ""
         \/ body.entries[i].server = Blank
  <1> DEFINE e == body.entries[i]
  <1>1. n.server = e.server /\ n.port = PortOf(body.form, e)
    BY DEF Node
  <1>2. n.port = 0 => e.port = 0
    BY <1>1, PortZeroIsStated
  <1>3. body.form = "clash" => e.server # "" /\ e.port # 0
    BY NormalizeSkips DEF RawNodes, ClashNodes
  <1>4. QED
    BY <1>1, <1>2, <1>3

-----------------------------------------------------------------------------
(* Metadata                                                                *)

\* The last value stated for a key is that of the last pair with the key, and the
\* default if there is none.
LEMMA LastOfFacts ==
  ASSUME NEW pairs, Len(pairs) \in Nat, NEW key, NEW default
  PROVE  \/ /\ \A i \in 1 .. Len(pairs) : pairs[i][1] # key
            /\ LastOf(pairs, key, default) = default
         \/ \E i \in 1 .. Len(pairs) :
              /\ pairs[i][1] = key
              /\ \A j \in i + 1 .. Len(pairs) : pairs[j][1] # key
              /\ LastOf(pairs, key, default) = pairs[i][2]
  <1> DEFINE I    == {i \in 1 .. Len(pairs) : pairs[i][1] = key}
             last == IF I # {} THEN Max(I) ELSE 0
  <1>1. LastOf(pairs, key, default) = IF last = 0 THEN default ELSE pairs[last][2]
    BY DEF LastOf, SelectLastInSeq
  <1>2. CASE I = {}
    BY <1>1, <1>2
  <1>3. CASE I # {}
    <2>1. \E i \in I : \A j \in I : i >= j
      BY <1>3, GreatestPosition
    <2>2. Max(I) \in I /\ \A j \in I : Max(I) >= j
      BY <2>1 DEF Max
    <2>3. LastOf(pairs, key, default) = pairs[Max(I)][2]
      BY <1>1, <1>3, <2>2
    <2>4. \A j \in Max(I) + 1 .. Len(pairs) : pairs[j][1] # key
      BY <2>2
    <2>5. QED
      BY <2>2, <2>3, <2>4
  <1>4. QED
    BY <1>2, <1>3

\* Hours are a number of hours, 0 if nothing is stated.
LEMMA HoursType ==
  /\ Hours(Absent) = 0
  /\ \A interval \in Nat \cup {Absent} : Hours(interval) \in Nat
  BY ProfileAssumption DEF Hours, Hour

\* Whole hours, while their number is below the limit, are read the same from
\* either unit.
LEMMA UnitsAgree ==
  ASSUME NEW stated \in 1 .. Hour - 1
  PROVE  Hours(Hour * stated) = Hours(stated)
  <1>1. Hour * stated \in Nat /\ Hour * stated >= Hour /\ stated \in Nat /\ stated < Hour
    BY DEF Hour
  <1>2. Hours(Hour * stated) = (Hour * stated) \div Hour
    BY <1>1, ProfileAssumption DEF Hours
  <1>3. Hours(stated) = stated
    BY <1>1, ProfileAssumption DEF Hours, Hour
  <1>4. (Hour * stated) \div Hour = stated
    BY DEF Hour
  <1>5. QED
    BY <1>2, <1>3, <1>4
=============================================================================
