---------------------------- MODULE MySQLConnect -----------------------------
(***************************************************************************)
(* Connect: dialling, the watch of its context, the server's greeting, the *)
(* authentication with the plugin of the server's choice, one switch of    *)
(* the plugin, public keys, and then the first commands of the connection: *)
(* the system variable that limits packets and the parameters of the DSN,  *)
(* which are executed as MySQLCommands has it.                             *)
(***************************************************************************)
EXTENDS MySQLCommands

CONSTANTS
    Plugins,   \* plugins a server may ask for
    Allowed    \* those the client can use with its configuration

\* What the configuration protects a password with.
Secrets == {"none"} \cup ({"tls", "pubKey"} \cap Features)

\* Call number 1 is Connect; a plain configuration needs no commands.
ConnectCommands ==
    (IF "sysvar" \in Features THEN <<"sysvar">> ELSE <<>>)
    \o (IF "charsets" \in Features THEN <<"names", "names">> ELSE <<>>)
    \o (IF "params" \in Features THEN <<"params">> ELSE <<>>)

Dial ==
    /\ pc = "dial"
    /\ \/ /\ res' = "err"
          /\ pc' = "gone"
          /\ UNCHANGED <<wire, watcher>>
       \/ /\ wire' = [wire EXCEPT !.net = "up"]
          /\ watcher' = [watcher EXCEPT !.pc = "idle"]
          /\ pc' = "watch"
          /\ UNCHANGED res
    /\ UNCHANGED <<call, rows, session, conn, srv, ended, history>>

\* readHandshakePacket, and auth for the plugin it names or for the default.
Greeting ==
    /\ pc = "greeting"
    /\ Receive({"greeting", "err"})
    /\ conn' = Counted(conn)
    /\ LET plugin == IF srv.plugin \in Allowed THEN srv.plugin ELSE DefaultPlugin IN
       \/ /\ NextPacket.kind = "greeting"
          /\ plugin \in Allowed
          /\ session' = [session EXCEPT !.plugin = plugin]
          /\ GoOn(IF session.secret = "tls" THEN "tls" ELSE "respond")
       \/ /\ NextPacket.kind = "err" \/ plugin \notin Allowed
          /\ UNCHANGED session
          /\ Return(IF NextPacket.kind = "err" THEN "err" ELSE "local")
    /\ UNCHANGED <<rows, Rest>>

\* The request for TLS and its handshake precede the response.
StartTls ==
    /\ pc = "tls"
    /\ \/ BusyBuffer
       \/ WritePacket(conn, Upload("sslRequest"), "tlsHandshake")
    /\ UNCHANGED <<rows, session, Rest>>

TlsHandshake ==
    /\ pc = "tlsHandshake"
    /\ UNCHANGED <<rows, session, conn>>
    /\ \/ Return("local") /\ UNCHANGED <<wire, Rest>>
       \/ /\ wire.net = "up"
          /\ wire' = [wire EXCEPT !.out = <<>>]
          /\ GoOn("respond")
          /\ UNCHANGED Rest

Respond ==
    /\ pc = "respond"
    /\ BusyBuffer \/ WritePacket(conn, Upload("response"), "authResult")
    /\ UNCHANGED <<rows, session, Rest>>

\* Authentication has succeeded: the first command, or the end of Connect.  What
\* protected the password is of no use any more.
Authenticated ==
    /\ session' = [session EXCEPT !.auth = TRUE, !.plugin = DefaultPlugin, !.secret = "none"]
    /\ IF call.todo = <<>> THEN Return("ok") ELSE GoOn("write")

\* handleAuthResult: the server accepts, or wants another plugin, or more.
AuthResult ==
    /\ pc \in {"authResult", "authSwitched"}
    /\ Receive({"ok", "err", "switch", "moreFast", "moreFull", "moreKey"})
    /\ conn' = [Counted(conn) EXCEPT !.more = FALSE]
    /\ LET kind == NextPacket.kind IN
       \/ kind = "ok" /\ Authenticated
       \/ kind = "err" /\ Return("err") /\ UNCHANGED session
       \/ /\ kind = "switch" /\ pc = "authResult"
          /\ IF srv.plugin \in Allowed
             THEN GoOn("switchAnswer") /\ session' = [session EXCEPT !.plugin = srv.plugin]
             ELSE Return("local") /\ UNCHANGED session
       \/ kind = "moreFast" /\ GoOn("authOK") /\ UNCHANGED session
       \/ /\ kind = "moreFull"
          /\ GoOn(IF session.secret = "none" THEN "askKey" ELSE "fullAnswer")
          /\ UNCHANGED session
       \/ kind = "moreKey" /\ GoOn("fullAnswer") /\ UNCHANGED session
    /\ UNCHANGED <<rows, Rest>>

\* writeAuthSwitchPacket: for the new plugin, or the password in clear (over
\* TLS) or encrypted.
AuthAnswer ==
    /\ pc \in {"switchAnswer", "fullAnswer"}
    /\ \/ BusyBuffer
       \/ /\ wire.buf = <<>>
          /\ WritePacket(conn, Upload("authData"),
                         IF pc = "switchAnswer" THEN "authSwitched" ELSE "authOK")
    /\ UNCHANGED <<rows, session, Rest>>

\* The request for the public key: the outcome of its write is not looked at.
AskKey ==
    /\ pc = "askKey"
    /\ GoOn("key")
    /\ \/ wire.net # "up" /\ UNCHANGED <<conn, wire>>
       \/ wire.net # "up" /\ ~conn.canceled /\ conn' = Cleanup(conn) /\ wire' = CutOff(conn, wire)
       \/ /\ wire.net # "closed"
          /\ conn' = Counted(conn)
          /\ wire' = [wire EXCEPT !.out = IF wire.net = "up" THEN Append(@, Upload("keyRequest")) ELSE @]
    /\ UNCHANGED <<rows, session, Rest>>

Key ==
    /\ pc = "key"
    /\ Receive({"key"})
    /\ conn' = Counted(conn)
    /\ GoOn("fullAnswer")
    /\ UNCHANGED <<rows, session, Rest>>

\* readResultOK after more data was exchanged.
AuthOK ==
    /\ pc = "authOK"
    /\ Receive({"ok", "err"})
    /\ conn' = Counted(conn)
    /\ IF NextPacket.kind = "ok" THEN Authenticated
       ELSE Return("err") /\ UNCHANGED session
    /\ UNCHANGED <<rows, Rest>>

\* getSystemVar: one row, and then the rest.
Variable ==
    /\ pc = "variable"
    /\ Receive({"row"})
    /\ conn' = Counted(conn)
    /\ GoOn("rows")
    /\ UNCHANGED <<rows, session, Rest>>

\* Mutant: a Connect that fails leaves its connection.
AbandonOpen ==
    /\ pc = "abandon"
    /\ GoOn("finish")
    /\ UNCHANGED <<rows, session, conn, wire, Rest>>

\* A Connect that fails: cleanup, or Close once the client is authenticated.
Abandon ==
    /\ pc = "abandon"
    /\ conn' = Cleanup(conn)
    /\ wire' = IF session.auth THEN Quit(conn, wire) ELSE CutOff(conn, wire)
    /\ GoOn("finish")
    /\ UNCHANGED <<rows, session, Rest>>

ConnectStep ==
    \/ Dial \/ Greeting \/ StartTls \/ TlsHandshake \/ Respond \/ AuthResult
    \/ AuthAnswer \/ AskKey \/ Key \/ AuthOK \/ Variable \/ Abandon
=============================================================================
