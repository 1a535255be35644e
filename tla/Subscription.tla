---------------------------- MODULE Subscription ----------------------------
(***************************************************************************)
(* SubscriptionFetch with real bodies: what is a stub and which profile a  *)
(* body holds are those of Profile.  The nodes a client sees, redacted, in *)
(* a profile are those it may CONNECT to by their ids.                     *)
(***************************************************************************)
EXTENDS SubscriptionFetch, ProfileOutputs, Metadata

ASSUME SubscriptionAssumption ==
  /\ \A b \in Bodies :
       /\ b.form \in Forms
       /\ b.entries \in Seq(ToSet(b.entries))
       /\ DOMAIN b.headers = {"title", "interval", "quota"}
       /\ b.headers.interval \in Nat \cup {Absent}
       /\ b.headers.quota # Absent => b.headers.quota \in Seq(ToSet(b.headers.quota))
       /\ b.directives \in Seq(ToSet(b.directives))
       /\ \A d \in ToSet(b.directives) :
            /\ d[1] = "interval" => d[2] \in Nat \cup {Absent}
            /\ d[1] = "quota" /\ d[2] # Absent => d[2] \in Seq(ToSet(d[2]))
  /\ Stubs = {b \in Bodies : IsStub(b)}
  /\ Parsed = [b \in Bodies |->
                 IF UsableNodes(b) = <<>> THEN None ELSE UsableNodes(b)]
  \* No profile is None, and no outbound or quota is Absent.
  /\ \A b \in Bodies :
       /\ UsableNodes(b) # None
       /\ \A n \in ToSet(UsableNodes(b)) : Outbound(n) # Absent
       /\ b.headers.quota # Absent => UserInfo(b.headers.quota) # Absent
       /\ \A d \in ToSet(b.directives) :
            d[1] = "quota" /\ d[2] # Absent => UserInfo(d[2]) # Absent

\* The body with one of its entries only.
Alone(b, i) == [b EXCEPT !.entries = <<b.entries[i]>>]

Fetched == stage = "idle" /\ outcome.result = "ok"

\* A fetch yields the nodes each line or proxy of its body gives by itself, and
\* no other: a malformed, unsupported or placeholder entry costs no server next
\* to it, whatever its error is, and a fetch fails over its body only if no entry
\* gives a node (the skipping in normalize, the filter of fetch_and_normalize).
\* The one error that costs every entry is a Clash document that is no YAML as a
\* whole: the form "broken", in which no entry gives a node by itself either.
EntriesIndependent ==
  stage = "idle" /\ outcome.result \in {"ok", "unusable"} =>
    (IF Fetched THEN ToSet(profile) ELSE {}) =
      UNION {ToSet(UsableNodes(Alone(outcome.of, i))) : i \in DOMAIN outcome.of.entries}

\* The parts of an outbound that the id of its node stands for.
Identified(outbound) ==
  [field \in {"protocol", "server", "port", "secret", "transport"} |-> outbound[field]]

\* normalize takes one side of the user:pass of such a URI, and does not decode it.
Distorted(form, e) ==
  /\ form # "clash" /\ Protocol(e.scheme) \in {"trojan", "hysteria2"}
  /\ e.pass # Absent \/ e.secret \in DOMAIN UriText

\* Whoever selects a node by the id in the redacted profile of FETCH is connected
\* to the server, port, transport and credentials of that node, if config
\* generation supports it: an id never leads to another server or account.  What
\* may be another entry's are the TLS settings, flow, vmess security, obfs and hop
\* ports: stable_node_id leaves them out, and select_node takes the first node
\* with the id.  And the credentials are those of the entry, except for a trojan
\* or hysteria2 URI with user:pass or percent-encoding.
SelectionReaches ==
  Fetched =>
    \A j \in DOMAIN profile :
      LET n == profile[j]
          started == GenerateConfig(profile, View(profile)[j].id)
      IN IF n.protocol \in Supported
           THEN /\ started # Absent
                /\ Identified(started) = Identified(Outbound(n))
                /\ \E e \in ToSet(outcome.of.entries) :
                     /\ e.server = started.server
                     /\ \/ OrElse(e.secret, "") = started.secret
                        \/ Distorted(outcome.of.form, e)
           ELSE started = Absent

\* A profile that `conflux fetch` or `conflux convert` writes is one that `conflux
\* validate` accepts, whatever entries the body holds, with two exceptions: a URI
\* may state the port 0 or an empty server, which only the Clash parser refuses,
\* and any entry a server of blanks, which validate alone trims.
FilesValidate ==
  stage = "idle" /\ outcome.of \in Bodies =>
    \A nodes \in Written(outcome.of) \ {<<>>} :
      \/ Valid(nodes)
      \/ \E e \in ToSet(outcome.of.entries) :
           \/ outcome.of.form # "clash" /\ (e.port = 0 \/ e.server = "")
           \/ e.server = Blank

\* The i-th of some <<key, value>> pairs is the last one with its key.
IsLast(pairs, key, i) ==
  /\ pairs[i][1] = key
  /\ \A j \in i + 1 .. Len(pairs) : pairs[j][1] # key

\* A number of hours is that of an interval in hours, or below 3600 in seconds.
HoursAgree(hours, stated) ==
  IF stated < Hour THEN hours = stated
  ELSE Hour * hours <= stated /\ stated < Hour * (hours + 1)

\* A quota holds the last number stated for each part.
QuotaAgrees(quota, stated) ==
  \A f \in Quotas :
    \/ \E i \in DOMAIN stated : IsLast(stated, f, i) /\ quota[f] = stated[i][2]
    \/ /\ \A i \in DOMAIN stated : stated[i][1] # f
       /\ quota[f] = IF f = "expire" THEN Absent ELSE 0

\* Whether a value says something, and whether the profile agrees with it.
Says(key, v) ==
  CASE key = "title"    -> v \notin {Absent, ""}
    [] key = "interval" -> v \notin {Absent, 0}
    [] key = "quota"    -> v # Absent

Agrees(key, said, v) ==
  CASE key = "title"    -> said = v
    [] key = "interval" -> HoursAgree(said, v)
    [] key = "quota"    -> said # Absent /\ QuotaAgrees(said, v)

\* Whatever a panel says of a subscription, in headers and in any number of
\* directives, the profile says: what the header says, or else what the last
\* directive of that key does, and nothing only if neither does.  An empty title or
\* an interval of 0 in a header hides no directive, and a header that says
\* something is not overruled by one (pick_title, pick_update_interval).  Two
\* exceptions are the code's: a quota header counts even without a readable number,
\* as a quota of zeros that hides the directive (headers.user_info.or), and a
\* directive that says nothing takes back an earlier one (apply_body_directive).
MetadataKept ==
  Fetched =>
    LET h    == outcome.of.headers
        d    == outcome.of.directives
        said == Merge(h, d)
    IN \A key \in {"title", "interval", "quota"} :
         IF Says(key, h[key]) THEN Agrees(key, said[key], h[key])
         ELSE IF \E i \in DOMAIN d : IsLast(d, key, i) /\ Says(key, d[i][2])
           THEN \E i \in DOMAIN d : IsLast(d, key, i) /\ Agrees(key, said[key], d[i][2])
           ELSE said[key] = [title |-> "", interval |-> 0, quota |-> Absent][key]

\* "Refresh interval in hours (or seconds if >= 3600)", docs/subscription-formats.md:
\* a panel that states whole hours as seconds is understood like one that states
\* them as hours, from the first hour on.
IntervalsAgree ==
  Fetched =>
    LET stated == outcome.of.headers.interval
    IN  stated # Absent /\ stated \in 1 .. Hour - 1 => Hours(Hour * stated) = Hours(stated)

\* Not so: "User-Agents tried in order when a panel returns a stub or unknown
\* format" (fetch/mod.rs, at USER_AGENTS).  A page without a node is taken for
\* the answer by the first attempt that gets it, and the fetch fails.
RetriesUnknownFormat ==
  stage = "idle" /\ outcome.result = "unusable" /\ outcome.of.form = "page" =>
    Len(answers) = Attempts

\* Not so: "This ID survives subscription refreshes when the underlying endpoint
\* is unchanged" (docs/architecture.md, Node Identity).  The id of a node that
\* was fetched as a URI and then as a Clash item changes although sing-box gets
\* the same outbound for both.
IdSurvivesRefresh ==
  [][profile # None /\ profile' # None =>
       \A n \in ToSet(profile), m \in ToSet(profile') :
         Outbound(n) = Outbound(m) => n.id = m.id]_profile
=============================================================================
