------------------------- MODULE SubscriptionProofs -------------------------
(***************************************************************************)
(* Proofs about what a fetch yields, for any panel: bodies of any length   *)
(* with any entries, any headers and any directives.  FetchProofs gives    *)
(* the body a fetch rests on and the profile it leaves, ProfileProofs what *)
(* that profile holds.                                                     *)
(***************************************************************************)
EXTENDS Subscription, FetchProofs, ProfileProofs

\* The facts of SubscriptionAssumption on one body.
LEMMA BodyFacts ==
  ASSUME NEW b \in Bodies
  PROVE  /\ IsBody(b)
         /\ Parsed[b] = IF UsableNodes(b) = <<>> THEN None ELSE UsableNodes(b)
         /\ UsableNodes(b) # None
         /\ \A n \in ToSet(UsableNodes(b)) : Outbound(n) # Absent
         /\ DOMAIN b.headers = {"title", "interval", "quota"}
         /\ b.headers.interval \in Nat \cup {Absent}
         /\ b.headers.quota # Absent => b.headers.quota \in Seq(ToSet(b.headers.quota))
         /\ b.directives \in Seq(ToSet(b.directives))
         /\ \A d \in ToSet(b.directives) :
              /\ d[1] = "interval" => d[2] \in Nat \cup {Absent}
              /\ d[1] = "quota" /\ d[2] # Absent => d[2] \in Seq(ToSet(d[2]))
         /\ b.headers.quota # Absent => UserInfo(b.headers.quota) # Absent
         /\ \A d \in ToSet(b.directives) :
              d[1] = "quota" /\ d[2] # Absent => UserInfo(d[2]) # Absent
  BY SubscriptionAssumption DEF IsBody

\* Where a fetch has succeeded, the profile holds the usable nodes of its body.
LEMMA FetchedProfile ==
  ASSUME FetchInv, Delivered, Fetched
  PROVE  /\ outcome.of \in Bodies
         /\ profile = UsableNodes(outcome.of)
  BY BodyFacts DEF Delivered, Fetched

-----------------------------------------------------------------------------
(* Entries                                                                 *)

LEMMA AloneBody ==
  ASSUME NEW b, IsBody(b), NEW i \in DOMAIN b.entries
  PROVE  /\ IsBody(Alone(b, i))
         /\ Alone(b, i).form = b.form
         /\ ToSet(Alone(b, i).entries) = {b.entries[i]}
  BY DEF Alone, IsBody, ToSet

\* The nodes of a body are those of its entries, each by itself.
LEMMA NodesOneByOne ==
  ASSUME NEW b, IsBody(b)
  PROVE  ToSet(UsableNodes(b)) =
           UNION {ToSet(UsableNodes(Alone(b, i))) : i \in DOMAIN b.entries}
  <1> DEFINE given(S) == {Node(b.form, e) : e \in {d \in S : Gives(b.form, d)}}
  <1>1. ToSet(UsableNodes(b)) = given(ToSet(b.entries))
    BY UsableNodesAre
  <1>2. \A i \in DOMAIN b.entries :
          ToSet(UsableNodes(Alone(b, i))) = given({b.entries[i]})
    BY AloneBody, UsableNodesAre
  <1>3. given(ToSet(b.entries)) = UNION {given({b.entries[i]}) : i \in DOMAIN b.entries}
    BY DEF ToSet
  <1>4. QED
    BY <1>1, <1>2, <1>3

\* For every panel: no entry of a body costs or changes a node of another.
THEOREM EntriesAreIndependent == FetchSpec => []EntriesIndependent
  <1>1. FetchInv /\ Delivered => EntriesIndependent
    <2> SUFFICES ASSUME FetchInv, Delivered, stage = "idle",
                        outcome.result \in {"ok", "unusable"}
                 PROVE  (IF Fetched THEN ToSet(profile) ELSE {}) =
                          UNION {ToSet(UsableNodes(Alone(outcome.of, i))) :
                                   i \in DOMAIN outcome.of.entries}
      BY DEF EntriesIndependent
    <2>1. outcome.of \in Bodies
      BY DEF Delivered
    <2>2. (IF Fetched THEN ToSet(profile) ELSE {}) = ToSet(UsableNodes(outcome.of))
      <3>1. CASE outcome.result = "ok"
        BY <3>1, FetchedProfile DEF Fetched
      <3>2. CASE outcome.result = "unusable"
        <4>1. UsableNodes(outcome.of) = <<>> /\ ~Fetched
          BY <2>1, <3>2, BodyFacts DEF Delivered, Fetched
        <4>2. ToSet(<<>>) = {}
          BY DEF ToSet
        <4>3. QED
          BY <4>1, <4>2
      <3>3. QED
        BY <3>1, <3>2
    <2>3. QED
      BY <2>1, <2>2, BodyFacts, NodesOneByOne
  <1>2. QED
    BY <1>1, FetchInvariant, AlwaysDelivered, PTL

-----------------------------------------------------------------------------
(* Selection                                                               *)

\* In the profile of a body, the id of a node selects a node that agrees with it
\* in all but TLS and options, and comes from an entry that normalizes.
LEMMA SelectedNode ==
  ASSUME NEW b, IsBody(b), NEW j \in DOMAIN UsableNodes(b)
  PROVE  LET nodes == UsableNodes(b)
             i     == SelectNode(nodes, View(nodes)[j].id)
         IN  /\ i \in DOMAIN nodes /\ i # 0
             /\ nodes[i].protocol = nodes[j].protocol
             /\ Identified(Outbound(nodes[i])) = Identified(Outbound(nodes[j]))
             /\ \E e \in ToSet(b.entries) :
                  Normalizes(b.form, e) /\ nodes[i] = Node(b.form, e)
  <1> DEFINE nodes == UsableNodes(b)
             id    == View(nodes)[j].id
             i     == SelectNode(nodes, id)
  <1>1. /\ Usable(b) \in SUBSET (1 .. Len(b.entries))
        /\ DOMAIN b.entries = 1 .. Len(b.entries)
    BY BodyPositions
  <1>2. /\ Len(nodes) \in Nat /\ DOMAIN nodes = 1 .. Len(nodes)
        /\ \A m \in DOMAIN nodes :
             \E k \in Usable(b) : nodes[m] = Node(b.form, b.entries[k])
    BY <1>1, NodesAtFacts DEF UsableNodes
  <1>3. \A m \in DOMAIN nodes :
          \E e \in ToSet(b.entries) : Normalizes(b.form, e) /\ nodes[m] = Node(b.form, e)
    BY <1>1, <1>2, NormalizeSkips DEF ToSet, Usable
  <1>4. id = nodes[j].id
    <2>1. PICK e : nodes[j] = Node(b.form, e)
      BY <1>3
    <2>2. View(nodes)[j] = Redacted(nodes[j])
      BY DEF View
    <2>3. QED
      BY <2>1, <2>2, RedactionKeepsIds
  <1>5. i \in 1 .. Len(nodes) /\ nodes[i].id = nodes[j].id
    BY <1>2, <1>4, SelectNodeFacts
  <1>6. PICK d, e : nodes[i] = Node(b.form, d) /\ nodes[j] = Node(b.form, e)
    BY <1>2, <1>3, <1>5
  <1>7. /\ nodes[i].protocol = nodes[j].protocol
        /\ Identified(Outbound(nodes[i])) = Identified(Outbound(nodes[j]))
    BY <1>5, <1>6, IdDetermines DEF Identified
  <1>8. QED
    BY <1>2, <1>3, <1>5, <1>7

\* For every panel and every profile: whoever selects an id gets the server, port,
\* transport and credentials of the node that showed it, and no other account than
\* one the body states (stable_node_id, select_node, redacted_for_ipc).
THEOREM SelectionAlwaysReaches == FetchSpec => []SelectionReaches
  <1>1. FetchInv /\ Delivered => SelectionReaches
    <2> SUFFICES ASSUME FetchInv, Delivered, Fetched, NEW j \in DOMAIN profile
                 PROVE  LET n == profile[j]
                            started == GenerateConfig(profile, View(profile)[j].id)
                        IN IF n.protocol \in Supported
                             THEN /\ started # Absent
                                  /\ Identified(started) = Identified(Outbound(n))
                                  /\ \E e \in ToSet(outcome.of.entries) :
                                       /\ e.server = started.server
                                       /\ \/ OrElse(e.secret, "") = started.secret
                                          \/ Distorted(outcome.of.form, e)
                             ELSE started = Absent
      BY DEF SelectionReaches
    <2> DEFINE b       == outcome.of
               i       == SelectNode(profile, View(profile)[j].id)
               started == GenerateConfig(profile, View(profile)[j].id)
    <2>1. b \in Bodies /\ profile = UsableNodes(b) /\ IsBody(b)
      BY FetchedProfile, BodyFacts
    <2>2. /\ i \in DOMAIN profile /\ i # 0
          /\ profile[i].protocol = profile[j].protocol
          /\ Identified(Outbound(profile[i])) = Identified(Outbound(profile[j]))
          /\ \E e \in ToSet(b.entries) :
               Normalizes(b.form, e) /\ profile[i] = Node(b.form, e)
      BY <2>1, SelectedNode
    <2>3. started = IF profile[j].protocol \notin Supported THEN Absent
                                                            ELSE Outbound(profile[i])
      BY <2>2 DEF GenerateConfig
    <2>4. Outbound(profile[i]) # Absent
      BY <2>1, <2>2, BodyFacts DEF ToSet
    <2>5. ASSUME profile[j].protocol \in Supported
          PROVE  \E e \in ToSet(b.entries) :
                   /\ e.server = started.server
                   /\ OrElse(e.secret, "") = started.secret \/ Distorted(b.form, e)
      <3>1. PICK e \in ToSet(b.entries) :
              Normalizes(b.form, e) /\ profile[i] = Node(b.form, e)
        BY <2>2
      <3>2. started = Outbound(Node(b.form, e)) /\ Node(b.form, e).protocol \in Supported
        BY <2>2, <2>3, <2>5, <3>1
      <3>3. /\ Outbound(Node(b.form, e)).server = e.server
            /\ \/ Outbound(Node(b.form, e)).secret = OrElse(e.secret, "")
               \/ Distorted(b.form, e)
        <4>1. Normalizes(b.form, e)
          BY <3>1
        <4>2. QED
          BY <3>2, <4>1, OutboundOf DEF Distorted
      <3>4. QED
        BY <3>1, <3>2, <3>3
    <2>6. QED
      BY <2>2, <2>3, <2>4, <2>5
  <1>2. QED
    BY <1>1, FetchInvariant, AlwaysDelivered, PTL

-----------------------------------------------------------------------------
(* Files                                                                   *)

\* For every body: a file the command line writes validates, unless a URI states
\* the port 0 or an empty server, or an entry a server of blanks.
THEOREM FilesAlwaysValidate == FetchSpec => []FilesValidate
  <1>1. FilesValidate
    <2> SUFFICES ASSUME outcome.of \in Bodies,
                        NEW nodes \in Written(outcome.of) \ {<<>>}, ~Valid(nodes)
                 PROVE  \E e \in ToSet(outcome.of.entries) :
                          \/ outcome.of.form # "clash" /\ (e.port = 0 \/ e.server = "")
                          \/ e.server = Blank
      BY DEF FilesValidate
    <2> DEFINE b == outcome.of
    <2>1. IsBody(b)
      BY BodyFacts
    <2>2. PICK K \in SUBSET Normalize(b) : nodes = NodesAt(b, K)
      BY <2>1, WrittenAt
    <2>3. ToSet(nodes) = {Node(b.form, b.entries[i]) : i \in K}
      BY <2>1, <2>2, BodyPositions, NodesAtFacts
    <2>4. PICK n \in ToSet(nodes) : n.server \in {"", Blank} \/ n.port = 0
      BY DEF Valid
    <2>5. PICK i \in Normalize(b) : n = Node(b.form, b.entries[i])
      BY <2>2, <2>3, <2>4
    <2>6. \/ b.form # "clash" /\ (b.entries[i].port = 0 \/ b.entries[i].server = "")
          \/ b.entries[i].server = Blank
      BY <2>1, <2>4, <2>5, InvalidNode
    <2>7. b.entries[i] \in ToSet(b.entries)
      BY <2>1, <2>5, BodyPositions DEF ToSet
    <2>8. QED
      BY <2>6, <2>7
  <1>2. QED
    BY <1>1, PTL

-----------------------------------------------------------------------------
(* Metadata                                                                *)

\* What a body says for a key is what its last directive of that key says.
LEMMA BodySays ==
  ASSUME NEW b \in Bodies, NEW key \in {"title", "interval", "quota"}
  PROVE  \/ /\ \A i \in DOMAIN b.directives : ~IsLast(b.directives, key, i)
            /\ BodyMetadata(b.directives)[key] = Absent
         \/ \E i \in DOMAIN b.directives :
              /\ IsLast(b.directives, key, i)
              /\ BodyMetadata(b.directives)[key] = b.directives[i][2]
              /\ \A j \in DOMAIN b.directives : IsLast(b.directives, key, j) => j = i
  <1> DEFINE d == b.directives
  <1>1. Len(d) \in Nat /\ DOMAIN d = 1 .. Len(d)
    BY BodyFacts
  <1>2. BodyMetadata(d)[key] = LastOf(d, key, Absent)
    BY DEF BodyMetadata
  <1>3. CASE /\ \A i \in 1 .. Len(d) : d[i][1] # key
             /\ LastOf(d, key, Absent) = Absent
    BY <1>1, <1>2, <1>3 DEF IsLast
  <1>4. ASSUME NEW i \in 1 .. Len(d), d[i][1] = key,
               \A j \in i + 1 .. Len(d) : d[j][1] # key,
               LastOf(d, key, Absent) = d[i][2]
        PROVE  /\ IsLast(d, key, i) /\ BodyMetadata(d)[key] = d[i][2]
               /\ \A j \in DOMAIN d : IsLast(d, key, j) => j = i
    <2>1. ASSUME NEW j \in DOMAIN d, IsLast(d, key, j), j # i
          PROVE  FALSE
      <3>1. j < i \/ i < j
        BY <1>1, <2>1
      <3>2. QED
        BY <1>1, <1>4, <2>1, <3>1 DEF IsLast
    <2>2. QED
      BY <1>2, <1>4, <2>1 DEF IsLast
  <1>5. QED
    BY <1>1, <1>3, <1>4, LastOfFacts

\* A number of hours agrees with the interval it was read from.
LEMMA HoursRead ==
  ASSUME NEW v \in Nat
  PROVE  HoursAgree(Hours(v), v) /\ (v # 0 => Hours(v) > 0)
  <1>1. v # Absent /\ Hour \in Nat /\ Hour > 0
    BY ProfileAssumption DEF Hour
  <1>2. CASE v < Hour
    <2>1. Hours(v) = v
      BY <1>1, <1>2 DEF Hours
    <2>2. QED
      BY <1>2, <2>1 DEF HoursAgree
  <1>3. CASE v >= Hour
    <2>1. Hours(v) = v \div Hour
      BY <1>1, <1>3 DEF Hours
    <2>2. /\ v \div Hour \in Nat /\ v \div Hour > 0
          /\ Hour * (v \div Hour) <= v /\ v < Hour * ((v \div Hour) + 1)
      BY <1>3 DEF Hour
    <2>3. QED
      BY <1>1, <1>3, <2>1, <2>2 DEF HoursAgree
  <1>4. QED
    BY <1>1, <1>2, <1>3

\* A quota agrees with the parts it was read from.
LEMMA QuotaRead ==
  ASSUME NEW q, q # Absent, q \in Seq(ToSet(q)), UserInfo(q) # Absent
  PROVE  Agrees("quota", UserInfo(q), q)
  <1>1. ASSUME NEW f \in Quotas
        PROVE  \/ \E i \in DOMAIN q : IsLast(q, f, i) /\ UserInfo(q)[f] = q[i][2]
               \/ /\ \A i \in DOMAIN q : q[i][1] # f
                  /\ UserInfo(q)[f] = IF f = "expire" THEN Absent ELSE 0
    <2>1. UserInfo(q)[f] = LastOf(q, f, IF f = "expire" THEN Absent ELSE 0)
      BY DEF UserInfo
    <2>2. Len(q) \in Nat /\ DOMAIN q = 1 .. Len(q)
      OBVIOUS
    <2>3. QED
      BY <2>1, <2>2, LastOfFacts DEF IsLast
  <1>2. QED
    BY <1>1 DEF Agrees, QuotaAgrees

\* Of one body, key by key: the header, or else the last directive, or else nothing.
LEMMA KeyKept ==
  ASSUME NEW b \in Bodies, NEW key \in {"title", "interval", "quota"}
  PROVE  LET h    == b.headers
             d    == b.directives
             said == Merge(h, d)
         IN IF Says(key, h[key]) THEN Agrees(key, said[key], h[key])
            ELSE IF \E i \in DOMAIN d : IsLast(d, key, i) /\ Says(key, d[i][2])
              THEN \E i \in DOMAIN d : IsLast(d, key, i) /\ Agrees(key, said[key], d[i][2])
              ELSE said[key] = [title |-> "", interval |-> 0, quota |-> Absent][key]
  <1> DEFINE h    == b.headers
             d    == b.directives
             said == Merge(h, d)
             body == BodyMetadata(d)
             last(i) == IsLast(d, key, i)
  \* What there is to know of the directives, in the words of the goal.
  <1>1. \/ body[key] = Absent /\ \A i \in DOMAIN d : ~last(i)
        \/ \E i \in DOMAIN d :
             /\ last(i) /\ body[key] = d[i][2]
             /\ \A j \in DOMAIN d : last(j) => j = i
    BY BodySays
  <1>2. ~Says(key, Absent)
    BY DEF Says
  <1>3. ASSUME NEW i \in DOMAIN d, last(i), Says(key, d[i][2])
        PROVE  body[key] = d[i][2]
    BY <1>1, <1>3
  <1>4. ASSUME \A i \in DOMAIN d : ~(last(i) /\ Says(key, d[i][2]))
        PROVE  ~Says(key, body[key])
    BY <1>1, <1>2, <1>4
  <1>5. \A i \in DOMAIN d : d[i] \in ToSet(d)
    BY DEF ToSet
  \* It is enough to compare what is said with the header and with the body.
  <1>6. SUFFICES /\ Says(key, h[key]) => Agrees(key, said[key], h[key])
                 /\ \A i \in DOMAIN d :
                      ~Says(key, h[key]) /\ last(i) /\ Says(key, d[i][2]) =>
                        Agrees(key, said[key], d[i][2])
                 /\ ~Says(key, h[key]) /\ ~Says(key, body[key]) =>
                      said[key] = [title |-> "", interval |-> 0, quota |-> Absent][key]
    BY <1>4
  <1>7. CASE key = "title"
    <2>1. said[key] = IF h.title \in {Absent, ""} THEN OrElse(body.title, "") ELSE h.title
      BY <1>7 DEF Merge
    <2>2. \A v : Says(key, v) <=> v \notin {Absent, ""}
      BY <1>7 DEF Says
    <2>3. \A v : Agrees(key, said[key], v) <=> said[key] = v
      BY <1>7 DEF Agrees
    <2>4. QED
      BY <1>3, <1>7, <2>1, <2>2, <2>3 DEF OrElse
  <1>8. CASE key = "interval"
    <2>1. said[key] = IF Hours(h.interval) > 0 THEN Hours(h.interval)
                                               ELSE Hours(body.interval)
      BY <1>8 DEF Merge
    <2>2. \A v : Says(key, v) <=> v \notin {Absent, 0}
      BY <1>8 DEF Says
    <2>3. \A v : Agrees(key, said[key], v) <=> HoursAgree(said[key], v)
      BY <1>8 DEF Agrees
    <2>4. h.interval \in Nat \cup {Absent}
      BY BodyFacts
    <2>5. \A i \in DOMAIN d : last(i) => d[i][2] \in Nat \cup {Absent}
      BY <1>5, <1>8, BodyFacts DEF IsLast
    <2>6. \A v \in Nat \cup {Absent} :
            IF Says(key, v) THEN Hours(v) > 0 /\ HoursAgree(Hours(v), v) ELSE Hours(v) = 0
      <3>1. Hours(0) = 0 /\ Hours(Absent) = 0
        BY ProfileAssumption DEF Hours, Hour
      <3>2. QED
        BY <2>2, <3>1, HoursRead
    <2>7. Says(key, h[key]) => Agrees(key, said[key], h[key])
      BY <1>8, <2>1, <2>3, <2>4, <2>6
    <2>8. ~Says(key, h[key]) => said[key] = Hours(body.interval)
      <3>1. ~Says(key, h.interval) => Hours(h.interval) = 0
        BY <2>4, <2>6
      <3>2. Hours(h.interval) = 0 => said[key] = Hours(body.interval)
        BY <2>1
      <3>3. QED
        BY <1>8, <3>1, <3>2
    <2>9. ASSUME NEW i \in DOMAIN d, ~Says(key, h[key]), last(i), Says(key, d[i][2])
          PROVE  Agrees(key, said[key], d[i][2])
      BY <1>3, <1>8, <2>3, <2>5, <2>6, <2>8, <2>9
    <2>10. ASSUME ~Says(key, h[key]), ~Says(key, body[key])
           PROVE  said[key] = 0
      <3>1. body[key] \in Nat \cup {Absent}
        BY <1>1, <2>5
      <3>2. QED
        BY <1>8, <2>6, <2>8, <2>10, <3>1
    <2>11. QED
      BY <1>8, <2>7, <2>9, <2>10
  <1>9. CASE key = "quota"
    <2>1. said[key] = OrElse(UserInfo(h.quota), UserInfo(body.quota))
      BY <1>9 DEF Merge
    <2>2. \A v : Says(key, v) <=> v # Absent
      BY <1>9 DEF Says
    <2>3. UserInfo(Absent) = Absent
      BY DEF UserInfo
    <2>4. /\ h.quota # Absent => UserInfo(h.quota) # Absent /\ h.quota \in Seq(ToSet(h.quota))
          /\ \A i \in DOMAIN d : last(i) /\ d[i][2] # Absent =>
               UserInfo(d[i][2]) # Absent /\ d[i][2] \in Seq(ToSet(d[i][2]))
      BY <1>5, <1>9, BodyFacts DEF IsLast
    <2>5. Says(key, h[key]) => Agrees(key, said[key], h[key])
      BY <1>9, <2>1, <2>2, <2>4, QuotaRead DEF OrElse
    <2>6. ~Says(key, h[key]) => said[key] = UserInfo(body.quota)
      BY <1>9, <2>1, <2>2, <2>3 DEF OrElse
    <2>7. ASSUME NEW i \in DOMAIN d, ~Says(key, h[key]), last(i), Says(key, d[i][2])
          PROVE  Agrees(key, said[key], d[i][2])
      <3>1. said[key] = UserInfo(d[i][2]) /\ d[i][2] # Absent
        BY <1>3, <1>9, <2>2, <2>6, <2>7
      <3>2. QED
        BY <1>9, <2>4, <2>7, <3>1, QuotaRead
    <2>8. ~Says(key, h[key]) /\ ~Says(key, body[key]) => said[key] = Absent
      BY <1>9, <2>2, <2>3, <2>6
    <2>9. QED
      BY <1>9, <2>5, <2>7, <2>8
  <1>10. QED
    BY <1>7, <1>8, <1>9

\* For every panel: what the headers or the last directives say of a subscription
\* is in the profile (pick_title, pick_update_interval, apply_body_directive).
THEOREM MetadataAlwaysKept == FetchSpec => []MetadataKept
  <1>1. FetchInv /\ Delivered => MetadataKept
    <2> SUFFICES ASSUME FetchInv, Delivered, Fetched
                 PROVE  MetadataKept
      BY DEF MetadataKept
    <2>1. outcome.of \in Bodies
      BY FetchedProfile
    <2>2. QED
      BY <2>1, KeyKept DEF MetadataKept
  <1>2. QED
    BY <1>1, FetchInvariant, AlwaysDelivered, PTL

\* Whole hours that a panel states in seconds are understood.
THEOREM IntervalsAlwaysAgree == FetchSpec => []IntervalsAgree
  <1>1. IntervalsAgree
    BY UnitsAgree, Zenon DEF IntervalsAgree
  <1>2. QED
    BY <1>1, PTL
=============================================================================
