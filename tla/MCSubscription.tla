--------------------------- MODULE MCSubscription ---------------------------
(* A small instance of Subscription for TLC: bodies of one entry, and of   *)
(* one after a good one, in each form a panel may send.                    *)
EXTENDS Subscription

CONSTANTS e1

Entry(scheme, server, port, secret, security) ==
  [scheme |-> scheme, server |-> server, port |-> port, secret |-> secret, pass |-> Absent,
   network |-> "tcp", path |-> Absent, host |-> Absent, sni |-> "a.example",
   header |-> Absent, security |-> security, options |-> NoOptions, notice |-> "none"]

VlessA  == Entry("vless", "a", 443, "u", "tls")
VlessB  == Entry("vless", "a", 443, "first", "tls")
Dummy   == Entry("vless", AnyAddr, 1, NilUuid, "none")
BadUuid == Entry("vless", "a", 443, "bad", "none")
BigPort == Entry("trojan", "b", 65536, "pw", "none")
Trojan  == Entry("trojan", "b", Absent, "pw", "none")
Socks   == Entry("socks", "b", 1080, Absent, "none")
NoPort  == Entry("ss", "b", 0, "pw", "none")
Native  == Entry("himera", "b", 65536, "key", "none")
Notice  == [VlessA EXCEPT !.notice = "legible"]
Unseen  == [VlessA EXCEPT !.notice = "hidden"]
Ws      == [VlessA EXCEPT !.network = "ws", !.path = "x"]
Reality == [VlessA EXCEPT !.security = "reality"]
PortZero == Entry("trojan", "b", 0, "pw", "none")
NoServer == Entry("vmess", "", 443, "u", "none")
Nowhere  == Entry("ss", "", 443, "pw", "none")
NoSecret == Entry("trojan", "b", 443, Absent, "none")
Vision   == [VlessA EXCEPT !.options.flow = "vision"]
UserPass == [Trojan EXCEPT !.pass = "second"]
PassOnly == [NoSecret EXCEPT !.pass = "second"]
Escaped  == [Trojan EXCEPT !.secret = "p:w"]
Vmess    == Entry("vmess", Blank, 443, "u", "none")
Cipher   == [Vmess EXCEPT !.options.encryption = "none", !.server = "a"]
Hy2      == Entry("hy2", "b", 443, "pw", "none")
Hopping  == [Hy2 EXCEPT !.options.ports = "20000-30000", !.options.obfs = <<"", Absent>>]
Obfs     == [Hy2 EXCEPT !.options.obfs = <<"salamander", "ob">>]

\* Pairs that share an id: whoever selects the second gets the first.
Twins   == {<<Hy2, Hopping>>, <<Obfs, Hy2>>, <<UserPass, Trojan>>,
            <<Cipher, [Cipher EXCEPT !.options = NoOptions]>>}

Uris    == {VlessA, VlessB, Dummy, BadUuid, BigPort, Trojan, Socks, Native, Notice, Unseen, Ws,
            Reality, PortZero, NoServer, Vision, UserPass, PassOnly, Escaped, Vmess}
Proxies == {VlessA, VlessB, Dummy, BadUuid, BigPort, Socks, NoPort, Ws, Reality, Nowhere, NoSecret,
            Vision, Vmess}
Lists(S) == {<<e>> : e \in S} \cup {<<VlessA, e>> : e \in S}

MCUuids  == {"u", FirstUuid, NilUuid}
MCUriText == [s \in {"p:w"} |-> "p%3Aw"]
MCErrors == {e1}
Said(titles, intervals, quotas) ==
  [title : titles, interval : intervals, quota : quotas]
Headers ==
  Said({"", "T"}, {0, 1}, {Absent})
    \cup Said({Absent}, {Absent, 3600}, {<<>>, <<<<"total", 5>>, <<"expire", 9>>, <<"total", 6>>>>})
Directives ==
  {<<>>, <<<<"title", "D">>, <<"interval", 7200>>>>,
   <<<<"interval", 12>>, <<"quota", <<<<"upload", 3>>>>>>, <<"interval", Absent>>>>}

Panel ==
  LET bodies(forms, entries, headers, directives) ==
        [form : forms, entries : entries, headers : headers, directives : directives]
      untold(form, entries) == bodies({form}, entries, {Silent}, {<<>>})
  IN untold("uris", Lists(Uris) \cup Twins)
       \cup untold("base64", Lists({VlessA, Dummy, Notice, Trojan}))
       \cup untold("clash", Lists(Proxies))
       \cup untold("broken", {<<VlessA>>})
       \cup untold("page", {<<>>})
       \cup bodies({"uris"}, {<<VlessA>>}, Headers, Directives)
StubsOfPanel == {b \in Panel : IsStub(b)}
Profiles == [b \in Panel |-> IF UsableNodes(b) = <<>> THEN None ELSE UsableNodes(b)]

\* TLC computes a definition of this module once, but what a constant of another
\* module is replaced by each time: hence the names, and the tables.
MCBodies == Panel
MCStubs  == StubsOfPanel
MCParsed == Profiles
=============================================================================
