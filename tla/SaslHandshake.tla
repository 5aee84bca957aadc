--------------------------- MODULE SaslHandshake ---------------------------
(***************************************************************************)
(* How a channel authenticates (RpcChannelImpl::connect and                *)
(* setupSaslConnection, SaslClient): the header names the protocol, the    *)
(* server offers methods or says that it wants none, client and server     *)
(* exchange the tokens of the chosen mechanism until each of them is done, *)
(* and the connection context follows.  A connection may break anywhere,   *)
(* and the same channel, with the SASL client it had, then tries again; so *)
(* does a later call that finds the channel not available.                 *)
(*                                                                         *)
(* The server is external: it is modelled from the messages the code       *)
(* handles.  Each connection may meet another list of methods, and the     *)
(* server may deviate: the client has an answer to each such message.      *)
(* Rounds gives the calls of gsasl_step (external) each mechanism takes;   *)
(* each of them may fail, for want of a ticket or for a wrong token.       *)
(***************************************************************************)
EXTENDS Integers, Sequences, SequencesExt

CONSTANTS
    Offers,      \* the lists of methods servers offer; <<>> is a server without security
    Rounds,      \* method -> steps of the client's mechanism
    MaxTries,    \* conf.getMaxRetryOnConnect
    MaxConnects  \* bound: calls of connect

VARIABLES
    rpcKey,      \* the channel's key: [method, hasToken]
    handshake,   \* the client: [phase, auth, saslClient, retval, tries, connects, why]
    server,      \* of this connection: [offer, phase, method, steps, deviated]
    reply        \* the server's message the client has not read: at most one

saslVars == <<rpcKey, handshake, server, reply>>

Protocol(method) == IF method = "SIMPLE" THEN "NONE" ELSE "SASL"

Reply(state, auths, token) == <<[state |-> state, auths |-> auths, token |-> token]>>

\* RpcAuth::ParseMethod knows three names.
Known == {"SIMPLE", "KERBEROS", "TOKEN"}

\* createSaslClient: the first method on the list the client can use.  An
\* unknown name met before it is an exception.
createSaslClient(auths) ==
    LET usable == SelectInSeq(auths, LAMBDA a :
                      a \in {"KERBEROS", "SIMPLE"} \/ (a = "TOKEN" /\ rpcKey.hasToken) \/ a \notin Known)
    IN  IF usable = 0 THEN "none"
        ELSE IF auths[usable] \notin Known THEN "unknown" ELSE auths[usable]

\* A SASL client; old once the connection it was made for is gone.
NewClient(m) == [method |-> m, steps |-> 0, complete |-> FALSE, old |-> FALSE]

\* SaslClient::SaslClient may fail to start the mechanism: none is made then.
SaslClient(m) == {<<>>, <<NewClient(m)>>}

\* What a step of the client ends in: the client, whether a token came out,
\* and why an AccessControlException is thrown, if it is.
Stepped(c, token) == [client |-> c, token |-> token, why |-> "none"]
Refuse(c, why)    == [client |-> c, token |-> FALSE, why |-> why]

\* SaslClient::evaluateChallenge: one step of the mechanism.  It may refuse, and
\* does when it was complete; only the last step of DIGEST-MD5 gives no token.
evaluateChallenge(c) ==
    LET last == c.steps + 1 >= Rounds[c.method]
        next == [c EXCEPT !.steps = @ + 1, !.complete = last]
    IN  IF c.complete THEN {Refuse(c, "too many steps")}
        ELSE {Refuse(c, "rejected"), Stepped(next, ~(last /\ c.method = "TOKEN"))}

saslEvaluateToken(c, hasToken, serverIsDone) ==
    LET checked(r) == IF r.why # "none" \/ ~serverIsDone THEN r
                      ELSE IF ~r.client.complete THEN Refuse(r.client, "out of sync")
                      ELSE IF r.token THEN Refuse(r.client, "spurious response")
                      ELSE r
    IN  IF hasToken THEN {checked(r) : r \in evaluateChallenge(c)}
        ELSE IF serverIsDone THEN {checked(Stepped(c, FALSE))}
        ELSE {Refuse(c, "no token")}

Stop(phase, why) == handshake' = [handshake EXCEPT !.phase = phase, !.why = why]

\* The exception of a step leaves connect, and the client stays in the channel.
Denied(r) == handshake' = [handshake EXCEPT !.saslClient = <<r.client>>, !.phase = "denied", !.why = r.why]

\* connect: the socket, the header and, for SASL, the negotiate request.
connectHeader ==
    /\ handshake.phase = "connect"
    /\ reply' = <<>>
    /\ LET sasl == Protocol(handshake.auth) = "SASL"
       IN  /\ handshake' = [handshake EXCEPT !.phase = IF sasl THEN "sasl" ELSE "context",
                                !.retval = "SIMPLE",
                                !.saslClient = [i \in DOMAIN @ |-> [@[i] EXCEPT !.old = TRUE]]]
           /\ \E offer \in Offers :
                server' = [offer |-> offer, phase |-> IF sasl THEN "negotiate" ELSE "simple",
                           method |-> IF sasl THEN "none" ELSE "SIMPLE", steps |-> 0, deviated |-> FALSE]
    /\ UNCHANGED rpcKey

\* The server answers the negotiate request, external.
serverNegotiates ==
    /\ server.phase = "negotiate" /\ reply = <<>>
    /\ IF server.offer = <<>>
       THEN /\ reply' = Reply("SUCCESS", <<>>, FALSE)
            /\ server' = [server EXCEPT !.phase = "wants simple"]
       ELSE /\ reply' = Reply("NEGOTIATE", server.offer, FALSE)
            /\ server' = [server EXCEPT !.phase = "initiate"]
    /\ UNCHANGED <<rpcKey, handshake>>

\* The client's method and first token, or its answer to a challenge, has
\* arrived: the server's mechanism takes a step.  With DIGEST-MD5 its last
\* token comes with the success.
serverSteps ==
    /\ server.phase = "exchange" /\ server.method # "none" /\ reply = <<>>
    /\ LET last == server.steps + 1 >= Rounds[server.method] - (IF server.method = "TOKEN" THEN 1 ELSE 0)
       IN  /\ reply' = IF last THEN Reply("SUCCESS", <<>>, server.method = "TOKEN")
                       ELSE Reply("CHALLENGE", <<>>, TRUE)
           /\ server' = [server EXCEPT !.steps = @ + 1, !.phase = IF last THEN "established" ELSE "challenged"]
    /\ UNCHANGED <<rpcKey, handshake>>

\* Or it sends a challenge or a success that is not due, with or without a token.
serverDeviates ==
    /\ server.phase \in {"negotiate", "exchange"} /\ reply = <<>>
    /\ \E state \in {"CHALLENGE", "SUCCESS"}, token \in BOOLEAN :
         /\ reply' = Reply(state, <<>>, token)
         /\ server' = [server EXCEPT !.deviated = TRUE,
                          !.phase = IF state = "CHALLENGE" THEN "challenged" ELSE "established"]
    /\ UNCHANGED <<rpcKey, handshake>>

\* setupSaslConnection, NEGOTIATE.
receiveNegotiate ==
    /\ handshake.phase = "sasl" /\ reply # <<>> /\ reply[1].state = "NEGOTIATE"
    /\ reply' = <<>>
    /\ LET m == createSaslClient(reply[1].auths)
           sendsFirst(made) ==
               \E r \in evaluateChallenge(made[1]) :
                  IF r.why # "none" THEN Denied(r) /\ UNCHANGED server
                  ELSE /\ handshake' = [handshake EXCEPT !.saslClient = <<r.client>>, !.retval = m]
                       /\ server' = [server EXCEPT !.phase = "exchange", !.method = m]
       IN  IF m = "none" THEN Stop("denied", "cannot authenticate") /\ UNCHANGED server
           ELSE IF m = "unknown" THEN Stop("denied", "unknown method") /\ UNCHANGED server
           ELSE IF m = "SIMPLE"
           THEN /\ handshake' = [handshake EXCEPT !.phase = "connect", !.auth = "SIMPLE"]
                /\ UNCHANGED server
           ELSE \E made \in SaslClient(m) :
                  IF made = <<>> THEN Stop("failed", "no mechanism") /\ UNCHANGED server
                  ELSE sendsFirst(made)
    /\ UNCHANGED rpcKey

\* CHALLENGE.
receiveChallenge ==
    /\ handshake.phase = "sasl" /\ reply # <<>> /\ reply[1].state = "CHALLENGE"
    /\ reply' = <<>>
    /\ IF handshake.saslClient = <<>> THEN Stop("denied", "unsolicited challenge") /\ UNCHANGED server
       ELSE \E r \in saslEvaluateToken(handshake.saslClient[1], reply[1].token, FALSE) :
              IF r.why # "none" THEN Denied(r) /\ UNCHANGED server
              ELSE /\ handshake' = [handshake EXCEPT !.saslClient = <<r.client>>]
                   /\ server' = [server EXCEPT !.phase = "exchange"]
    /\ UNCHANGED rpcKey

\* SUCCESS, and connect's switch to another protocol when the method it is left
\* with is SIMPLE.  The channel may still have the client of an earlier attempt.
receiveSuccess ==
    /\ handshake.phase = "sasl" /\ reply # <<>> /\ reply[1].state = "SUCCESS"
    /\ reply' = <<>>
    /\ IF handshake.saslClient = <<>>
       THEN handshake' = [handshake EXCEPT !.auth = "SIMPLE", !.phase = "connect"]
       ELSE \E r \in saslEvaluateToken(handshake.saslClient[1], reply[1].token, TRUE) :
              IF r.why # "none" THEN Denied(r)
              ELSE handshake' = [handshake EXCEPT !.saslClient = <<r.client>>, !.auth = handshake.retval,
                       !.phase = IF Protocol(handshake.retval) = "SASL" THEN "context" ELSE "connect"]
    /\ UNCHANGED <<rpcKey, server>>

\* sendConnectionContent.
sendConnectionContent ==
    /\ handshake.phase = "context"
    /\ Stop("available", "none")
    /\ UNCHANGED <<rpcKey, server, reply>>

\* The connection breaks or times out, or the server takes the attempt for a
\* replay (SaslException): connect tries again with the auth of the key.
FirstAuth(k) == IF k.hasToken THEN "TOKEN" ELSE k.method

connectionFails ==
    /\ handshake.phase \in {"sasl", "context"}
    /\ reply' = <<>>
    /\ handshake' = IF handshake.tries + 1 < MaxTries
                    THEN [handshake EXCEPT !.phase = "connect", !.tries = @ + 1,
                                           !.auth = FirstAuth(rpcKey)]
                    ELSE [handshake EXCEPT !.phase = "failed", !.why = "network"]
    /\ server' = [server EXCEPT !.phase = "idle"]
    /\ UNCHANGED rpcKey

\* The next call, after the channel was shut down, connects again.
connectAgain ==
    /\ handshake.phase \in {"available", "denied", "failed"} /\ handshake.connects < MaxConnects
    /\ reply' = <<>>
    /\ handshake' = [handshake EXCEPT !.phase = "connect", !.tries = 0, !.connects = @ + 1,
                                      !.auth = FirstAuth(rpcKey), !.why = "none"]
    /\ server' = [server EXCEPT !.phase = "idle"]
    /\ UNCHANGED rpcKey

SaslInit ==
    /\ rpcKey \in [method : {"SIMPLE", "KERBEROS"}, hasToken : BOOLEAN]
    /\ handshake = [phase |-> "connect", auth |-> FirstAuth(rpcKey), saslClient |-> <<>>,
                    retval |-> "SIMPLE", tries |-> 0, connects |-> 1, why |-> "none"]
    /\ server = [offer |-> <<>>, phase |-> "idle", method |-> "none", steps |-> 0, deviated |-> FALSE]
    /\ reply = <<>>

SaslNext ==
    \/ connectHeader \/ serverNegotiates \/ serverSteps \/ serverDeviates
    \/ receiveNegotiate \/ receiveChallenge \/ receiveSuccess
    \/ sendConnectionContent \/ connectionFails \/ connectAgain

-----------------------------------------------------------------------------

\* A channel that becomes available agrees with its server: both finished the
\* same mechanism on this connection, the client's side to its last step, or
\* both use none, whatever an earlier attempt left in the channel and whatever
\* the server sends before its time.
BothSidesAuthenticated ==
    handshake.phase = "available" =>
        \/ handshake.auth = "SIMPLE" /\ server.phase = "simple"
        \/ /\ server.phase = "established" /\ server.method = handshake.auth
           /\ handshake.saslClient = <<[method |-> server.method, complete |-> TRUE, old |-> FALSE,
                                        steps |-> Rounds[server.method]]>>

\* A channel is denied for a cause outside the client's protocol: none of the
\* methods offered, up to the first it does not know, is of use; the mechanism
\* refused the credentials; or the server deviated.  Client and server do not get
\* out of step by themselves, but for one case the code has: the client left by
\* an attempt that broke off is asked whether it is complete when the server of
\* this connection wants no security.
DeniedForCause ==
    handshake.phase = "denied" =>
        \/ server.offer # <<>> /\ createSaslClient(server.offer) \in {"none", "unknown"}
        \/ handshake.why = "rejected"
        \/ server.deviated
        \/ server.offer = <<>> /\ handshake.saslClient[1].old /\ ~handshake.saslClient[1].complete

=============================================================================
