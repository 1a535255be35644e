--------------------------- MODULE ProfileOutputs ---------------------------
(***************************************************************************)
(* Where the nodes of a profile go besides sing-box: to the clients of the *)
(* daemon, redacted (redacted_for_ipc in crates/conflux-protocol), and to  *)
(* the files that `conflux fetch` and `conflux convert` write and          *)
(* `conflux validate` reads (crates/conflux-cli/src/main.rs).              *)
(***************************************************************************)
EXTENDS Profile

\* Credentials keep their kind and lose the secret.
Hidden(credentials) ==
  LET kind == credentials[1]
  IN  <<kind, IF kind = "uuid" THEN NilUuid
              ELSE IF kind = "none" THEN Absent ELSE "[redacted]">>

\* An obfs keeps its kind.
HiddenObfs(obfs) ==
  IF obfs = Absent THEN Absent
  ELSE <<obfs[1], IF obfs[2] = Absent THEN Absent ELSE "[redacted]">>

\* The id stays, as does everything else that is modelled.
Redacted(n) == [n EXCEPT !.credentials = Hidden(n.credentials),
                         !.options.obfs = HiddenObfs(n.options.obfs)]

\* The profile that FETCH and GET_PROFILE answer with.
View(nodes) == [i \in DOMAIN nodes |-> Redacted(nodes[i])]

\* The nodes `conflux convert --format` writes for a file with this body, <<>> if
\* it fails.  Placeholders are not sorted out.
Converted(format, body) ==
  IF \/ format = "clash" /\ body.form # "clash"
     \/ format = "uri-list" /\ body.form = "clash"
  THEN <<>> ELSE NodesAt(body, Normalize(body))

\* The nodes of the profiles the command line writes for a body.
Written(body) ==
  {UsableNodes(body)} \cup {Converted(f, body) : f \in {"auto", "clash", "uri-list"}}

\* What `conflux validate` accepts.
Valid(nodes) ==
  /\ nodes # <<>>
  /\ \A n \in ToSet(nodes) : n.server \notin {"", Blank} /\ n.port # 0
=============================================================================
