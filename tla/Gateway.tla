------------------------------ MODULE Gateway ------------------------------
(***************************************************************************)
(* src/src/gateway/task.gateway.ts: sockets, the rooms of organizations,   *)
(* the switch of the active organization and the heartbeat, in one         *)
(* process.  Three modules of the program provide TaskGateway: each        *)
(* instance has fields and a heartbeat of its own, and every one of them   *)
(* hears of each connection, message and hang-up of the one server.  A     *)
(* query and what follows it up to the next await are one step.  Sessions  *)
(* are better-auth's and external.  Left out: cookies, the room of a user  *)
(* (it never changes), the events.                                         *)
(***************************************************************************)
EXTENDS Directory

CONSTANTS
    Instance,  \* the instances of TaskGateway
    Token,
    Socket     \* ids, never used twice

VARIABLES
    session,     \* the Session rows by token; Gone: none, or expired
    socket,      \* the sockets, with their client.data and their rooms
    connecting,  \* by instance: what handleConnection has read, while it runs
    listed,      \* by instance: connectedUsers
    sync,        \* by instance: orgSyncInProgress, with what the sync has read
    beat         \* by instance: the sockets its heartbeat has still to see

gatewayVars == <<session, socket, connecting, listed, sync, beat>>

Session == [user: User, org: Org \cup {Nil}]
SocketRow == [state: {"new", "open", "closed"}, token: Token \cup {Nil},
              user: User \cup {Nil}, org: Org \cup {Nil}, rooms: SUBSET Org]
NoSocket == [state |-> "new", token |-> Nil, user |-> Nil, org |-> Nil, rooms |-> {}]
Sync == [user: User, old: Org \cup {Nil}, new: Org, beat: BOOLEAN]

\* handleConnection has not read the session yet.
Unread == [user |-> Nil, org |-> Nil]

Open(s) == socket[s].state = "open"

\* load.throws: a query may throw.
ASSUME GatewayAssumption ==
    /\ NoRow \cap (Token \cup Socket \cup Session \cup Sync \cup {Unread}) = {}
    /\ \A l \in Load : /\ l.session \in [Token -> Session \cup {Gone}]
                       /\ l.sockets \subseteq Socket
                       /\ l.throws \in BOOLEAN

GatewayInit ==
    /\ session = load.session
    /\ socket = [s \in Socket |-> NoSocket]
    /\ connecting = [g \in Instance |-> [s \in Socket |-> Nil]]
    /\ listed = [g \in Instance |-> [u \in User |-> {}]]
    /\ sync = [g \in Instance |-> [s \in Socket |-> Nil]]
    /\ beat = [g \in Instance |-> Nil]

GatewayInFlight == [op: {"switch"}, socket: Socket, left: SUBSET Instance]

----------------------------------------------------------------------------
(* Connections.                                                            *)

\* Fault: handleDisconnect forgets the user with all their sockets.
Disconnected_Everywhere(s) ==
    /\ socket' = [socket EXCEPT ![s].state = "closed"]
    /\ listed' = [g \in Instance |-> [u \in User |->
           IF u = socket[s].user THEN {} ELSE listed[g][u]]]

\* The handleDisconnect of every instance.  What is in flight for the socket goes on.
Disconnected(s) ==
    /\ socket' = [socket EXCEPT ![s].state = "closed"]
    /\ listed' = [g \in Instance |-> [u \in User |->
           IF u = socket[s].user THEN listed[g][u] \ {s} ELSE listed[g][u]]]

\* disconnect(true): nothing for a socket that is closed.
Kick(s) == IF Open(s) THEN Disconnected(s) ELSE UNCHANGED <<socket, listed>>

Connect(s, t) ==
    /\ s \in load.sockets /\ socket[s].state = "new"
    /\ socket' = [socket EXCEPT ![s].state = "open", ![s].token = t]
    /\ connecting' = [g \in Instance |-> [connecting[g] EXCEPT ![s] = Unread]]
    /\ UNCHANGED <<session, listed, sync, beat>>

ConnectRead(g, s) ==
    LET e == session[socket[s].token] IN
    /\ connecting[g][s] = Unread
    /\ e # Gone /\ e.org # Nil
    /\ connecting' = [connecting EXCEPT ![g][s] = e]
    /\ UNCHANGED <<session, socket, listed, sync, beat>>

\* No session, or one without an active organization; not a member of it.
Refused(g, s) ==
    LET c == connecting[g][s]
        e == session[socket[s].token]
    IN IF c = Unread THEN e = Gone \/ (e # Gone /\ e.org = Nil) ELSE member[c.user][c.org] = Nil

ConnectReject(g, s) ==
    /\ connecting[g][s] # Nil /\ (load.throws \/ Refused(g, s))
    /\ Kick(s)
    /\ connecting' = [connecting EXCEPT ![g][s] = Nil]
    /\ UNCHANGED <<session, sync, beat>>

\* The socket may be closed by now: it is listed all the same, and stays so.
ConnectJoin(g, s) ==
    LET c == connecting[g][s] IN
    /\ c \notin {Nil, Unread} /\ member[c.user][c.org] # Nil
    /\ socket' = [socket EXCEPT ![s].user = c.user, ![s].org = c.org, ![s].rooms = @ \cup {c.org}]
    /\ listed' = [listed EXCEPT ![g][c.user] = @ \cup {s}]
    /\ connecting' = [connecting EXCEPT ![g][s] = Nil]
    /\ UNCHANGED <<session, sync, beat>>

HangUp(s) ==
    /\ Open(s)
    /\ Disconnected(s)
    /\ UNCHANGED <<session, connecting, sync, beat>>

----------------------------------------------------------------------------
(* syncSocketOrg.                                                          *)

\* Each instance guards its own.  (What a sync of a closed socket does cannot be seen.)
SyncStart(g, s, e, byBeat) ==
    IF ~Open(s) \/ sync[g][s] # Nil \/ (e.org # Nil /\ e.org = socket[s].org)
    THEN UNCHANGED <<socket, listed, sync>>
    ELSE IF e.org = Nil THEN Kick(s) /\ UNCHANGED sync
    ELSE /\ sync' = [sync EXCEPT ![g][s] = [user |-> e.user, old |-> socket[s].org,
                                            new |-> e.org, beat |-> byBeat]]
         /\ UNCHANGED <<socket, listed>>

\* Not a member; or the query of a switch throws.
SyncReject(g, s) ==
    LET q == sync[g][s] IN
    /\ q # Nil /\ (member[q.user][q.new] = Nil \/ (load.throws /\ ~q.beat))
    /\ Kick(s)
    /\ sync' = [sync EXCEPT ![g][s] = Nil]
    /\ UNCHANGED <<session, connecting, beat>>

\* Fault: the guard of the socket is not taken away.
SyncJoin_KeepsGuard(g, s) ==
    LET q == sync[g][s] IN
    /\ q # Nil /\ member[q.user][q.new] # Nil /\ socket[s].org # q.new
    /\ socket' = [socket EXCEPT ![s].org = q.new, ![s].rooms = (@ \ {q.old}) \cup {q.new}]
    /\ UNCHANGED <<sync, session, connecting, listed, beat>>

\* The organization left is the one read before the await.
SyncJoin(g, s) ==
    LET q == sync[g][s] IN
    /\ q # Nil /\ member[q.user][q.new] # Nil
    /\ socket' = [socket EXCEPT ![s].org = q.new, ![s].rooms = (@ \ {q.old}) \cup {q.new}]
    /\ sync' = [sync EXCEPT ![g][s] = Nil]
    /\ UNCHANGED <<session, connecting, listed, beat>>

\* org:switch, which every instance answers.
Switch(r, s) ==
    /\ Open(s)
    /\ Begin(r, "switch", [op |-> "switch", socket |-> s, left |-> Instance])
    /\ UNCHANGED gatewayVars

SwitchRead(r, g) ==
    LET q == request[r]
        e == session[socket[q.socket].token]
    IN
    /\ q.op = "switch" /\ g \in q.left
    /\ \/ (load.throws \/ e = Gone) /\ Kick(q.socket) /\ UNCHANGED sync
       \/ e # Gone /\ SyncStart(g, q.socket, e, FALSE)
    /\ Await(r, IF q.left = {g} THEN Idle ELSE [q EXCEPT !.left = @ \ {g}])
    /\ UNCHANGED <<session, connecting, beat>>

----------------------------------------------------------------------------
(* The heartbeat: one at a time in each instance.                          *)

BeatSyncs(g) == \E s \in Socket : sync[g][s] # Nil /\ sync[g][s].beat

BeatRead(g) ==
    LET seen == {s \in Socket : Open(s)} IN
    /\ beat[g] = Nil /\ ~BeatSyncs(g) /\ seen # {}
    /\ beat' = [beat EXCEPT ![g] = [s \in seen |-> session[socket[s].token]]]
    /\ UNCHANGED <<session, socket, connecting, listed, sync>>

\* The next socket, when the sync of the last is over.
BeatNext(g, s) ==
    LET b == beat[g] IN
    /\ b # Nil /\ s \in DOMAIN b /\ ~BeatSyncs(g)
    /\ IF b[s] = Gone THEN Kick(s) /\ UNCHANGED sync ELSE SyncStart(g, s, b[s], TRUE)
    /\ beat' = [beat EXCEPT ![g] =
           IF DOMAIN b = {s} THEN Nil ELSE [x \in DOMAIN b \ {s} |-> b[x]]]
    /\ UNCHANGED <<session, connecting>>

\* Nobody catches what a heartbeat throws: the process ends, and starts again
\* without a socket.
Crash ==
    /\ load.throws /\ \E g \in Instance : beat[g] # Nil \/ BeatSyncs(g) \/ \E s \in Socket : Open(s)
    /\ socket' = [s \in Socket |-> IF Open(s) THEN [socket[s] EXCEPT !.state = "closed"] ELSE socket[s]]
    /\ connecting' = [g \in Instance |-> [s \in Socket |-> Nil]]
    /\ listed' = [g \in Instance |-> [u \in User |-> {}]]
    /\ sync' = [g \in Instance |-> [s \in Socket |-> Nil]]
    /\ beat' = [g \in Instance |-> Nil]
    /\ UNCHANGED session

----------------------------------------------------------------------------
(* better-auth: the active organization changes, a session ends.           *)

SetActive(r, t, o) ==
    /\ Call(r, "setActive")
    /\ session[t] # Gone /\ session[t].org # o
    /\ session' = [session EXCEPT ![t].org = o]
    /\ UNCHANGED <<socket, connecting, listed, sync, beat>>

SignOut(r, t) ==
    /\ Call(r, "signOut")
    /\ session[t] # Gone
    /\ session' = [session EXCEPT ![t] = Gone]
    /\ UNCHANGED <<socket, connecting, listed, sync, beat>>

----------------------------------------------------------------------------

\* What an instance does of itself.
ServerStep(g) ==
    \/ BeatRead(g)
    \/ \E s \in Socket :
         \/ ConnectRead(g, s) \/ ConnectReject(g, s) \/ ConnectJoin(g, s)
         \/ SyncReject(g, s) \/ SyncJoin(g, s) \/ BeatNext(g, s)

ClientStep == \E s \in Socket : HangUp(s) \/ \E t \in Token : Connect(s, t)

ClientCall(r) ==
    \/ \E s \in Socket : Switch(r, s)
    \/ \E g \in Instance : SwitchRead(r, g)
    \/ \E t \in Token : SignOut(r, t) \/ \E o \in Org \cup {Nil} : SetActive(r, t, o)

GatewayTypeOK ==
    /\ session \in [Token -> Session \cup {Gone}]
    /\ socket \in [Socket -> SocketRow]
    /\ connecting \in [Instance -> [Socket -> [user: User, org: Org] \cup {Nil, Unread}]]
    /\ listed \in [Instance -> [User -> SUBSET Socket]]
    /\ sync \in [Instance -> [Socket -> Sync \cup {Nil}]]
    /\ beat \in [Instance -> (UNION {[S -> Session \cup {Gone}] : S \in SUBSET Socket}) \cup {Nil}]

\* However the handlers of several instances meet at one socket: an instance
\* whose handleConnection is over lists an open socket under its user, and none
\* lists one under somebody else; and a socket is in the room of the
\* organization that its client.data names, whoever joined or left last.
Accounted ==
    \A g \in Instance, s \in Socket :
        LET c == socket[s] IN
        /\ Open(s) /\ connecting[g][s] = Nil => c.user # Nil /\ s \in listed[g][c.user]
        /\ \A u \in User : s \in listed[g][u] => c.user = u
        /\ c.org # Nil => c.org \in c.rooms

\* A socket that closes, for whatever reason, leaves no instance that lists it.
ClosingDelists ==
    \A g \in Instance, s \in Socket : Open(s) /\ ~Open(s)' => \A u \in User : s \notin listed'[g][u]

\* connectedUsers, rooms and client.data stay together (handleConnection,
\* handleDisconnect, syncSocketOrg), with clients that hang up at any moment.
SocketsAreAccountedFor == [][Accounted' /\ ClosingDelists]_gatewayVars

Behind(s) ==
    LET e == session[socket[s].token] IN
    Open(s) /\ socket[s].user # Nil /\ (e = Gone \/ (e # Gone /\ e.org # socket[s].org))

\* A socket whose session has ended or has moved to another organization does
\* not stay where it is: a heartbeat moves or closes it, whatever its client does.
SocketsCatchUp == \A s \in Socket : Behind(s) ~> ~Behind(s)
=============================================================================
