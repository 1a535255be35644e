------------------------------ MODULE Profile -------------------------------
(***************************************************************************)
(* From the body of a subscription to the outbound of a node, as           *)
(* operators: parse_body (crates/conflux-core/src/parse), normalize        *)
(* (normalize/mod.rs), the node id (conflux-protocol), the stub and        *)
(* placeholder tests, and generate_config (conflux-backend, config.rs).    *)
(*                                                                         *)
(* Text is abstracted to what these operators tell apart.  A body is       *)
(* [form, entries]; its entries are proxy URIs or, in the form "clash",    *)
(* items of proxies[], each a record                                       *)
(*   [scheme, server, port, secret, pass, network, path, host, sni,        *)
(*    header, security, options, notice]                                   *)
(* whose fields may be Absent.  `path` is the path or service name of the  *)
(* transport, in a Clash item the one inside ws-opts or grpc-opts.         *)
(* `secret` stands for all the credentials, except that in a URI with      *)
(* user:pass@ it is the user, and `pass` the rest.  `security` is "none",  *)
(* "tls", "reality" or, in a Clash item, "opts": reality-opts without tls: *)
(* true.  `options` is [flow, encryption, obfs, ports]: flow, the scy of a *)
(* vmess payload or the encryption of a vless URI, obfs as <<kind,         *)
(* password>>, and mport.  `notice` is "none", "legible" where the text of *)
(* the entry says that the application is not supported, or "hidden" where *)
(* only the decoded name does.  The form "broken" is a Clash document that *)
(* is no YAML.                                                             *)
(***************************************************************************)
EXTENDS Naturals, SequencesExt

CONSTANTS
  Absent,  \* a field the entry does not have
  Uuids,   \* the secrets that are UUIDs
  UriText  \* how a URI writes the secrets it has to percent-encode

\* A field that is missing is neither a UUID nor a number.
ASSUME ProfileAssumption ==
  Absent \notin Uuids /\ Absent \notin Nat /\ Absent \notin DOMAIN UriText

NilUuid   == "nil"      \* 00000000-0000-0000-0000-000000000000
FirstUuid == "first"    \* the same with a last digit of 1
AnyAddr   == "0.0.0.0"
Blank     == " "        \* any text of blanks

Forms     == {"uris", "base64", "clash", "broken", "page"}
U16(p)    == p # Absent /\ p < 65536
OrElse(v, default) == IF v = Absent THEN default ELSE v

\* Schemes and Clash types, with their aliases.
Protocol(scheme) ==
  CASE scheme \in {"ss", "shadowsocks"} -> "ss"
    [] scheme \in {"hysteria2", "hy2"}  -> "hysteria2"
    [] scheme \in {"socks", "socks5"}   -> "socks"
    [] scheme \in {"wireguard", "wg"}   -> "wireguard"
    [] scheme \in {"vless", "vmess", "trojan", "tuic", "himera"} -> scheme
    [] OTHER -> "unknown"

\* The schemes the URI scanner recognizes.
UriSchemes == {"vless", "vmess", "ss", "trojan", "hysteria2", "hy2", "himera", "socks"}

\* The protocols config generation supports.
Supported == {"vless", "vmess", "ss", "trojan", "hysteria2"}

-----------------------------------------------------------------------------
(* Parsing: the positions of the entries that become raw nodes.            *)

\* A Clash item needs a server, and a port that is a u16 and not 0.
ClashNodes(entries) ==
  {i \in DOMAIN entries : LET e == entries[i] IN
     e.server \notin {Absent, ""} /\ U16(e.port) /\ e.port # 0}

\* A URI is taken once; its first occurrence counts.
UriNodes(entries) ==
  {i \in DOMAIN entries : /\ entries[i].scheme \in UriSchemes
                          /\ \A j \in 1 .. i - 1 : entries[j] # entries[i]}

\* Mutant: Clash items are kept without a look at their server and port.
RawNodesUnchecked(body) ==
  CASE body.form = "clash"              -> DOMAIN body.entries
    [] body.form \in {"broken", "page"} -> {}
    [] OTHER                            -> UriNodes(body.entries)

RawNodes(body) ==
  CASE body.form = "clash"              -> ClashNodes(body.entries)
    [] body.form \in {"broken", "page"} -> {}
    [] OTHER                            -> UriNodes(body.entries)

-----------------------------------------------------------------------------
(* Normalization: one raw node.                                            *)

KindOf(network) ==
  CASE network \in {"ws", "grpc", "httpupgrade", "quic"} -> network
    [] network \in {"http", "h2"}  -> "h2"
    [] network \in {"kcp", "mkcp"} -> "kcp"
    [] OTHER -> "tcp"

Plain == [kind |-> "tcp", path |-> Absent, host |-> Absent, header |-> Absent]

\* A Clash item keeps its transport options one level below the keys that are
\* read, and its `type`, the protocol, is read as the header type.
TransportOf(form, e) ==
  LET p == Protocol(e.scheme) IN
  CASE form = "clash" ->
         [Plain EXCEPT !.kind = KindOf(e.network), !.header = e.scheme]
    [] form # "clash" /\ p \in {"vless", "trojan"} ->
         [kind |-> KindOf(e.network), path |-> e.path,
          host |-> OrElse(e.host, e.sni), header |-> e.header]
    [] form # "clash" /\ p = "vmess" ->
         [kind |-> KindOf(e.network), path |-> e.path, host |-> e.host,
          header |-> e.header]
    [] form # "clash" /\ p = "hysteria2" -> [Plain EXCEPT !.kind = "quic"]
    [] OTHER -> Plain

\* Of the user:pass of a URI one side is taken, and as the URI writes it.
UserOrPass(e) == IF e.secret \in {Absent, ""} THEN OrElse(e.pass, "") ELSE e.secret
Encoded(s)    == IF s \in DOMAIN UriText THEN UriText[s] ELSE s

CredentialsOf(form, e) ==
  LET p == Protocol(e.scheme) IN
  CASE p \in {"vless", "vmess"}       -> <<"uuid", e.secret>>
    [] p \in {"trojan", "hysteria2"}  ->
         <<"password", IF form = "clash" THEN OrElse(e.secret, "") ELSE Encoded(UserOrPass(e))>>
    [] p = "ss"                       -> <<"ss", OrElse(e.secret, "")>>
    [] form # "clash" /\ p = "himera" -> <<"native", e.secret>>
    [] OTHER                          -> <<"none", Absent>>

NoOptions == [flow |-> Absent, encryption |-> Absent, obfs |-> Absent, ports |-> Absent]

\* What each parser reads besides: of a Clash item, whatever its type, the flow.
OptionsOf(form, e) ==
  LET p == Protocol(e.scheme) IN
  CASE form = "clash" -> [NoOptions EXCEPT !.flow = e.options.flow]
    [] form # "clash" /\ p = "vless" ->
         [NoOptions EXCEPT !.flow = e.options.flow,
                           !.encryption = OrElse(e.options.encryption, "none")]
    [] form # "clash" /\ p = "vmess" ->
         [NoOptions EXCEPT !.encryption = e.options.encryption]
    [] form # "clash" /\ p = "hysteria2" ->
         [NoOptions EXCEPT !.obfs = e.options.obfs, !.ports = e.options.ports]
    [] OTHER -> NoOptions

\* The TLS part: none, or the server name (Absent if none is stated).
TlsOf(form, e) ==
  LET p    == Protocol(e.scheme)
      some == [on |-> TRUE, sni |-> e.sni]
      none == [on |-> FALSE, sni |-> Absent]
  IN CASE form = "clash" -> IF e.security \in {"tls", "reality"} THEN some ELSE none
       [] form # "clash" /\ p = "hysteria2" ->
            [on |-> TRUE, sni |-> OrElse(e.sni, e.server)]
       [] form # "clash" /\ p \in {"vless", "trojan"} /\ e.security # "none" -> some
       [] form # "clash" /\ p = "trojan" /\ e.security = "none" ->
            [on |-> TRUE, sni |-> OrElse(e.sni, e.server)]
       [] form # "clash" /\ p = "vmess" /\ e.security = "tls" ->
            [on |-> TRUE, sni |-> OrElse(e.sni, e.host)]
       [] OTHER -> none

RealityOf(form, e) ==
  IF form = "clash" THEN e.security \in {"reality", "opts"}
  ELSE Protocol(e.scheme) \in {"vless", "trojan"} /\ e.security = "reality"

PortOf(form, e) ==
  CASE form # "clash" /\ Protocol(e.scheme) = "himera" /\ ~U16(e.port) -> 8443
    [] OTHER -> OrElse(e.port, 443)

\* Whether normalize_node returns Ok.  A Clash item of a protocol that is not
\* implemented is a node without credentials; a URI of one is refused.
Normalizes(form, e) ==
  LET p == Protocol(e.scheme) IN
  /\ e.server # Absent
  /\ p \in {"vless", "vmess"} => e.secret \in Uuids
  /\ form # "clash" =>
       /\ p \in Supported \cup {"himera"}
       /\ p \in {"vless", "trojan", "hysteria2"} => e.server \notin {"", Blank}
       /\ p \in {"trojan", "hysteria2"} => UserOrPass(e) # ""
       /\ p \in {"ss", "himera"} => e.secret # Absent
       /\ p \in {"ss", "vmess"} => U16(e.port)
       /\ p \in {"vless", "trojan", "hysteria2"} => e.port = Absent \/ U16(e.port)

\* The parts that are hashed into the node id; the hash, cut to 64 bits, is
\* taken to be injective.
IdWithoutCredentials(protocol, server, port, credentials, transport) ==
  <<protocol, server, port, transport>>

Id(protocol, server, port, credentials, transport) ==
  <<protocol, server, port, credentials, transport>>

Node(form, e) ==
  LET protocol    == Protocol(e.scheme)
      port        == PortOf(form, e)
      credentials == CredentialsOf(form, e)
      transport   == TransportOf(form, e)
  IN [id |-> Id(protocol, e.server, port, credentials, transport),
      protocol |-> protocol, server |-> e.server, port |-> port,
      credentials |-> credentials, transport |-> transport,
      tls |-> TlsOf(form, e), reality |-> RealityOf(form, e),
      options |-> OptionsOf(form, e), notice |-> e.notice]

\* The kind of the error where normalize_node fails.
ErrorKind(form, e) ==
  LET p == Protocol(e.scheme) IN
  CASE form = "clash" -> "Parse"
    [] form # "clash" /\ p \notin Supported \cup {"himera"} -> "UnsupportedProtocol"
    [] form # "clash" /\ p \in {"vmess", "himera"} -> "Parse"
    [] OTHER -> "InvalidUri"

\* Mutant: a Clash item or a payload that cannot be read is not skipped.
SkippableLess == {"UnsupportedProtocol", "InvalidUri"}
Skippable     == {"UnsupportedProtocol", "InvalidUri", "Parse"}

\* Nodes that fail are skipped, unless an error is of another kind: then the whole
\* body fails.
Normalize(body) ==
  LET failing == {i \in RawNodes(body) : ~Normalizes(body.form, body.entries[i])}
  IN  IF \A i \in failing : ErrorKind(body.form, body.entries[i]) \in Skippable
        THEN RawNodes(body) \ failing ELSE {}

\* The n-th of some positions, and the nodes of the entries there.
Nth(positions, n) ==
  CHOOSE i \in positions : Cardinality({j \in positions : j <= i}) = n

NodesAt(body, positions) ==
  [n \in 1 .. Cardinality(positions) |->
     Node(body.form, body.entries[Nth(positions, n)])]

-----------------------------------------------------------------------------
(* Stubs and placeholders.                                                 *)

IsPlaceholder(n) ==
  \/ n.notice # "none"
  \/ n.server = AnyAddr /\ n.port <= 1 /\ n.credentials = <<"uuid", NilUuid>>

\* is_stub_body searches the text as received: nothing inside Base64 is seen,
\* neither a whole body nor the payload of a vmess or himera link nor the
\* credentials of an ss link.
IsStub(body) ==
  LET yaml    == body.form \in {"clash", "broken"}
      seen    == IF body.form \in {"base64", "page"} THEN {}
                 ELSE {e \in ToSet(body.entries) : yaml \/ e.scheme \notin {"vmess", "himera"}}
      has(s)  == \E e \in seen : e.secret = s /\ (yaml \/ e.scheme # "ss")
  IN \/ \E e \in seen : e.notice = "legible"
     \/ (\E e \in seen : e.server = AnyAddr) /\ has(NilUuid) /\ ~has(FirstUuid)

\* The profile fetch_and_normalize finds in a body: its usable nodes, or <<>>
\* for each of its errors (no raw node, none that normalizes, only placeholders).
Usable(body) ==
  {i \in Normalize(body) : ~IsPlaceholder(Node(body.form, body.entries[i]))}

UsableNodes(body) == NodesAt(body, Usable(body))

-----------------------------------------------------------------------------
(* Config generation.                                                      *)

\* The index of the node CONNECT with an id selects, 0 for NodeNotFound.
SelectNode(nodes, id) == SelectInSeq(nodes, LAMBDA n : n.id = id)

TransportBlock(transport) == IF transport.kind = "tcp" THEN Absent ELSE transport

\* REALITY is part of the TLS block, and without a TlsConfig there is none.
TlsBlock(n) == IF n.tls.on THEN [sni |-> n.tls.sni, reality |-> n.reality] ELSE Absent

\* The options each protocol passes on; an obfs without a kind is dropped.
PassedOn(n) ==
  LET o == n.options IN
  CASE n.protocol = "vless" -> [NoOptions EXCEPT !.flow = o.flow]
    [] n.protocol = "vmess" -> [NoOptions EXCEPT !.encryption = OrElse(o.encryption, "auto")]
    [] n.protocol = "hysteria2" ->
         [NoOptions EXCEPT !.ports = o.ports,
            !.obfs = IF o.obfs # Absent /\ o.obfs[1] = "" THEN Absent ELSE o.obfs]
    [] OTHER -> NoOptions

\* The proxy outbound for a node of a supported protocol.
Outbound(n) ==
  [protocol |-> n.protocol, server |-> n.server, port |-> n.port,
   secret |-> n.credentials[2], options |-> PassedOn(n),
   transport |-> IF n.protocol \in {"ss", "hysteria2"} THEN Absent ELSE TransportBlock(n.transport),
   tls |-> IF n.protocol = "ss" THEN Absent ELSE TlsBlock(n)]

\* The outbound sing-box is started with for an id; Absent: an error.
GenerateConfig(nodes, id) ==
  LET i == SelectNode(nodes, id)
  IN IF i = 0 THEN Absent
     ELSE IF nodes[i].protocol \notin Supported THEN Absent ELSE Outbound(nodes[i])
=============================================================================
