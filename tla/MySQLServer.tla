----------------------------- MODULE MySQLServer -----------------------------
(***************************************************************************)
(* The server, as the client code takes it to be: it reads one message at  *)
(* a time and answers it with one of the scripts of packets the protocol   *)
(* allows.  It is not part of the repository.                              *)
(***************************************************************************)
EXTENDS MySQLWire

Packet(kind, more) == [kind |-> kind, more |-> more]
P(kind) == Packet(kind, FALSE)

\* Commands whose repetition would be noticed.
Lasting == {"exec", "query", "stmtExec", "stmtQuery", "commit"}

ResultSet(more) == <<P("header"), P("columns"), P("row"), Packet("eof", more)>>
Refusals == {<<P("err")>>} \cup (IF "rejectReadOnly" \in Features THEN {<<P("readOnly")>>} ELSE {})
Results == {<<P("ok")>>, ResultSet(FALSE)}
LastResults == Results \cup {<<P("err")>>, <<P("header"), P("columns"), P("err")>>}

\* A text command may hold several statements; a statement that calls a
\* procedure answers with a result set and a final OK.
SeveralAnswers ==
    {first \o second : first \in {<<Packet("ok", TRUE)>>, ResultSet(TRUE)}, second \in LastResults}
QueryAnswers ==
    LastResults \cup Refusals
    \cup (IF "infile" \in Features THEN {<<P("infile")>>} ELSE {})
    \cup (IF "multi" \in Features THEN SeveralAnswers ELSE {})
ExecuteAnswers ==
    LastResults \cup (IF "multi" \in Features THEN {ResultSet(TRUE) \o <<P("ok")>>} ELSE {})

PrepareAnswers ==
    {<<P("prep0")>>, <<P("prep1"), P("columns")>>, <<P("prep2"), P("columns"), P("columns")>>,
     <<P("err")>>}

Answers(kind) ==
    CASE kind = "query" -> QueryAnswers
      [] kind = "execute" -> ExecuteAnswers
      [] kind = "prepare" -> PrepareAnswers
      [] kind = "sysvar" -> {ResultSet(FALSE), <<P("err")>>}
      [] OTHER -> {<<P("ok")>>, <<P("err")>>}

Silent == {"stmtClose", "longData", "data"}

\* The server takes a command and answers it.
ServerAnswers ==
    /\ srv.pc = "ready"
    /\ wire.out # <<>>
    /\ LET m == Head(wire.out) IN
       /\ m.kind \notin Silent \cup {"quit"}
       /\ \E script \in Answers(m.kind) :
             /\ Answer(m, script)
             /\ srv' = [srv EXCEPT !.pc = IF script[1].kind = "infile" THEN "infile" ELSE "ready",
                                   !.long = IF m.kind = "execute" THEN 0 ELSE @]
             /\ history' = IF call.kind \in Lasting /\ script[1].kind \in {"ok", "header"}
                           THEN [begun |-> history.begun \cup {m.cmd},
                                 done |-> history.done \cup {m.cmd}]
                           ELSE history
    /\ UNCHANGED <<clientVars, conn, watcher, ended>>

\* Long data is kept for the next execution; a closed statement drops it.
ServerTakes ==
    /\ srv.pc \in {"ready", "infile"}
    /\ wire.out # <<>>
    /\ Head(wire.out).kind \in Silent
    /\ wire' = [wire EXCEPT !.out = Tail(@)]
    /\ srv' = CASE Head(wire.out).kind = "longData" -> [srv EXCEPT !.long = Head(wire.out).cmd]
                [] Head(wire.out).kind = "stmtClose" -> [srv EXCEPT !.long = 0]
                [] OTHER -> srv
    /\ history' = IF Head(wire.out).kind = "data"
                  THEN [history EXCEPT !.begun = @ \cup {Head(wire.out).cmd}] ELSE history
    /\ UNCHANGED <<clientVars, conn, watcher, ended>>

\* The end of the content of LOAD DATA, with more results if there are any.
ServerLoads ==
    /\ srv.pc = "infile"
    /\ wire.out # <<>>
    /\ LET m == Head(wire.out) IN
       /\ m.kind = "empty"
       /\ \E script \in {<<P("ok")>>, <<P("err")>>}
                        \cup IF "multiInfile" \in Features
                             THEN {<<Packet("ok", TRUE), P("ok")>>} ELSE {} :
             /\ Answer(m, script)
             /\ history' = IF script[1].kind = "ok"
                           THEN [begun |-> history.begun \cup {m.cmd},
                                 done |-> history.done \cup {m.cmd}]
                           ELSE history
    /\ srv' = [srv EXCEPT !.pc = "ready"]
    /\ UNCHANGED <<clientVars, conn, watcher, ended>>

\* COM_QUIT, wherever it arrives: the server closes its side.
ServerQuits ==
    /\ wire.out # <<>>
    /\ Head(wire.out).kind = "quit"
    /\ srv' = [srv EXCEPT !.pc = "gone"]
    /\ wire' = [wire EXCEPT !.out = <<>>]
    /\ UNCHANGED <<clientVars, conn, watcher, ended, history>>

-----------------------------------------------------------------------------
(* The connection phase: srv.pc says which message the server waits for.   *)

Send(script, seq) ==
    wire' = [wire EXCEPT !.in = @ \o Numbered(script, [cmd |-> 1, seq |-> seq - 1])]

\* The greeting, with the plugin of the server's choice, or a refusal.
ServerGreets(plugins) ==
    /\ srv.pc = "connected"
    /\ wire.net = "up"
    /\ \/ \E p \in plugins : srv' = [srv EXCEPT !.pc = "response", !.plugin = p]
                             /\ Send(<<P("greeting")>>, 0)
       \/ srv' = [srv EXCEPT !.pc = "closing"] /\ Send(<<P("err")>>, 0)
    /\ UNCHANGED <<clientVars, conn, watcher, ended, history>>

\* The answers to authentication data the client has sent for plugin p: what
\* the server sends and what it waits for then.
Judged ==
    {[script |-> <<P("ok")>>, next |-> "ready"], [script |-> <<P("err")>>, next |-> "closing"]}
ForPlugin(p) ==
    CASE p = "caching_sha2" -> Judged
            \cup {[script |-> <<P("moreFast"), P("ok")>>, next |-> "ready"],
                  [script |-> <<P("moreFull")>>, next |-> "fullData"]}
      [] p = "sha256" -> Judged \cup {[script |-> <<P("moreKey")>>, next |-> "fullData"]}
      [] OTHER -> Judged

ServerAuthenticates(plugins) ==
    /\ wire.out # <<>>
    /\ LET m == Head(wire.out)
           switches == {[script |-> <<P("switch")>>, next |-> "switchData", plugin |-> p] : p \in plugins}
           stays == {[script |-> a.script, next |-> a.next,
                      plugin |-> IF a.next = "ready" THEN DefaultPlugin ELSE session.plugin] :
                        a \in ForPlugin(session.plugin)}
       IN \/ /\ srv.pc = "response"
             /\ m.kind = "response"
             /\ \E a \in stays \cup switches :
                   /\ Answer(m, a.script)
                   /\ srv' = [srv EXCEPT !.pc = a.next, !.plugin = a.plugin]
          \/ /\ srv.pc = "switchData"
             /\ m.kind = "authData"
             /\ \E a \in stays :
                   Answer(m, a.script) /\ srv' = [srv EXCEPT !.pc = a.next, !.plugin = a.plugin]
          \/ /\ srv.pc = "fullData"
             /\ m.kind = "keyRequest"
             /\ Answer(m, <<P("key")>>)
             /\ UNCHANGED srv
          \/ /\ srv.pc = "fullData"
             /\ m.kind = "authData"
             /\ \E a \in Judged :
                   Answer(m, a.script) /\ srv' = [srv EXCEPT !.pc = a.next, !.plugin = DefaultPlugin]
    /\ UNCHANGED <<clientVars, conn, watcher, ended, history>>

\* A refused client is disconnected.
ServerHangsUp ==
    /\ srv.pc = "closing"
    /\ wire' = [wire EXCEPT !.net = IF @ = "up" THEN "broken" ELSE @, !.out = <<>>]
    /\ srv' = [srv EXCEPT !.pc = "gone"]
    /\ UNCHANGED <<clientVars, conn, watcher, ended, history>>
=============================================================================
