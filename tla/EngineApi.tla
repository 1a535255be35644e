----------------------------- MODULE EngineApi ------------------------------
(***************************************************************************)
(* What a request does to an engine and what it answers, as operators      *)
(* without steps, locks or processes: the handlers of handle_request       *)
(* (crates/conflux-ipc/src/server.rs) over the state an engine shows its   *)
(* clients.  EngineService makes each of them one atomic step, and         *)
(* Deployment runs them in daemons that crash.                             *)
(*                                                                         *)
(* An engine is [profile, fetchError, status, config]: profile, whether    *)
(* the last fetch failed, the backend state as last observed, and the      *)
(* <<profile, node>> applied last.  Each operator is the set of outcomes a *)
(* request may have: the engine it leaves, and the result and data of the  *)
(* response.                                                               *)
(***************************************************************************)
CONSTANTS
  Profiles,  \* normalized subscriptions
  Usable,    \* pairs <<profile, node>> generate_config accepts
  None       \* Option::None

Engine == [profile : Profiles \cup {None}, fetchError : BOOLEAN,
           status : {"idle", "running", "error"}, config : Usable \cup {None}]

Ok(e, data) == [engine |-> e, result |-> "OK", data |-> data]
Err(e)      == [engine |-> e, result |-> "ERR", data |-> None]

NodeOf(config) == IF config = None THEN None ELSE config[2]

\* The data of an OK to CONNECT and DISCONNECT, and that of STATUS.
Backend(e) == <<e.status, NodeOf(e.config)>>
Shown(e)   == <<e.status, NodeOf(e.config), e.profile, e.fetchError>>

\* The death of the process is noticed when somebody looks.
Noticed(e) == {e} \cup (IF e.status = "running" THEN {[e EXCEPT !.status = "error"]}
                        ELSE {})

FetchOutcomes(e) ==
  {Ok([e EXCEPT !.profile = p, !.fetchError = FALSE], p) : p \in Profiles}
    \cup {Err([e EXCEPT !.fetchError = TRUE])}

GetProfileOutcomes(e) == {IF e.profile = None THEN Err(e) ELSE Ok(e, e.profile)}

StatusOutcomes(e) == {Ok(s, Shown(s)) : s \in Noticed(e)}

\* apply_profile and start, over what they find.
ApplyOutcomes(e, p, n) ==
  IF e.status = "running" \/ <<p, n>> \notin Usable THEN {Err(e)}
  ELSE LET tried(status) == [e EXCEPT !.status = status, !.config = <<p, n>>]
       IN {Ok(tried("running"), <<"running", n>>), Err(tried("error"))}

\* Without the sing-box binary CONNECT changes nothing.
ConnectOutcomes(e, p, n) ==
  {Err(e)} \cup UNION {ApplyOutcomes(s, p, n) : s \in Noticed(e)}

\* Only the stop of a running process may fail.
DisconnectOutcomes(e) ==
  LET idle == [e EXCEPT !.status = "idle"]
  IN  {Ok(idle, Backend(idle))}
        \cup {Err(s) : s \in Noticed(e) \ {e}}
=============================================================================
