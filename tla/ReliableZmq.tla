----------------------------- MODULE ReliableZmq -----------------------------
(* The push connection between the block senders of one group and a node of *)
(* another one (reliable_zeromq.h, zeromq.h): the server's owner creates and *)
(* drops it under a per-port shared mutex that is only ever tried, a thread  *)
(* of its own takes the first message off the socket, a receiver thread      *)
(* takes the others, and a client says hello over the socket and asks over   *)
(* RPC whether that has arrived, until it has or it gives up.                *)
(*                                                                           *)
(* ZeroMQ and brpc are external: a pipe per client, first in first out, that *)
(* keeps what is sent before the server listens; a call that may fail.       *)
EXTENDS Integers, Sequences

CONSTANTS
    Client,
    Retry,     \* retry of NewPublishClient
    Messages   \* bound: messages a client sends

Hello == 0     \* HELLO_MESSAGE; data messages are numbered from 1

VARIABLES
    owner,          \* where the thread that owns the server is
    server,         \* zmqServerList[port]: "none", "up", "shut" (down)
    shared,         \* holders of mutex[port] in shared mode
    helloThread,    \* _helloThread: "none", "recv", "signal", "ended"
    isReady,
    receivedHello,  \* the countdown event
    receiver,       \* the thread that calls receive(), "wait", "first", ...
    received,       \* what receive() has returned, <<client, message>>
    pipe,           \* per client, messages sent and not yet received
    client,         \* per client, where NewPublishClient is
    tries,          \* per client, hellos sent
    sent            \* per client, data messages sent

serverVars == <<owner, server, helloThread, isReady, receivedHello, receiver, received>>
clientVars == <<client, tries, sent>>
vars == <<serverVars, clientVars, shared, pipe>>

Init ==
    /\ owner = "new" /\ server = "none" /\ shared = {}
    /\ helloThread = "none" /\ isReady = FALSE /\ receivedHello = 1
    /\ receiver = "none" /\ received = <<>>
    /\ pipe = [c \in Client |-> <<>>]
    /\ client = [c \in Client |-> "hello"]
    /\ tries = [c \in Client |-> 0]
    /\ sent = [c \in Client |-> 0]

-----------------------------------------------------------------------------
(* The owner of the server, a BlockReceiver.                                 *)

\* A call of hello that holds the lock makes newConnection fail, and with it
\* the creation of the BlockReceiver.
NewSubscribeServer ==
    /\ owner = "new"
    /\ IF shared = {}
       THEN owner' = "get" /\ server' = "up" /\ helloThread' = "recv"
       ELSE owner' = "failed" /\ UNCHANGED <<server, helloThread>>
    /\ UNCHANGED <<clientVars, shared, pipe, isReady, receivedHello, receiver, received>>

\* The shared lock is kept as long as the pointer that is handed out.
GetSubscribeServer ==
    /\ owner = "get"
    /\ shared' = shared \cup {"receiver"}
    /\ receiver' = "wait" /\ owner' = "run"
    /\ UNCHANGED <<clientVars, pipe, server, helloThread, isReady, receivedHello, received>>

\* ~FragmentReceiver: shutdown, join, and the release of the pointer.
shutdown ==
    /\ owner = "run"
    /\ server' = "shut" /\ receivedHello' = 0 /\ owner' = "join"
    /\ UNCHANGED <<clientVars, shared, pipe, helloThread, isReady, receiver, received>>

PutSubscribeServer ==
    /\ owner = "join" /\ receiver = "ended"
    /\ shared' = shared \ {"receiver"} /\ owner' = "drop"
    /\ UNCHANGED <<clientVars, pipe, server, helloThread, isReady, receivedHello,
                   receiver, received>>

\* The destructor joins the hello thread.
DestroySubscribeServer ==
    /\ owner = "drop"
    /\ IF shared = {}
       THEN helloThread = "ended" /\ server' = "none" /\ owner' = "dropped"
       ELSE owner' = "kept" /\ UNCHANGED server
    /\ UNCHANGED <<clientVars, shared, pipe, helloThread, isReady, receivedHello,
                   receiver, received>>

-----------------------------------------------------------------------------
(* The server's two threads.                                                 *)

Take(c) == pipe' = [pipe EXCEPT ![c] = Tail(@)]

wait_hello(c) ==
    /\ helloThread = "recv" /\ server = "up" /\ pipe[c] # <<>>
    /\ Take(c)
    /\ isReady' = (Head(pipe[c]) = Hello)
    /\ helloThread' = IF isReady' THEN "signal" ELSE "ended"
    /\ UNCHANGED <<clientVars, shared, owner, server, receivedHello, receiver, received>>

\* Mutant: only the RPC service is told.
HelloUnsignalled ==
    /\ helloThread = "signal"
    /\ helloThread' = "ended"
    /\ UNCHANGED <<clientVars, shared, pipe, owner, server, isReady, receivedHello,
                   receiver, received>>

HelloSignal ==
    /\ helloThread = "signal"
    /\ receivedHello' = 0 /\ helloThread' = "ended"
    /\ UNCHANGED <<clientVars, shared, pipe, owner, server, isReady, receiver, received>>

\* A blocked recv fails when the context is shut down.
HelloShut ==
    /\ helloThread = "recv" /\ server = "shut"
    /\ helloThread' = "ended"
    /\ UNCHANGED <<clientVars, shared, pipe, owner, server, isReady, receivedHello,
                   receiver, received>>

\* receive(), the first time: wait for the hello thread to be off the socket.
waitReady ==
    /\ receiver = "wait" /\ receivedHello <= 0
    /\ receiver' = "first"
    /\ UNCHANGED <<clientVars, shared, pipe, owner, server, helloThread, isReady,
                   receivedHello, received>>

\* The first call skips hellos; later ones return what comes.
receive(c) ==
    /\ receiver \in {"first", "next"} /\ server = "up" /\ pipe[c] # <<>>
    /\ Take(c)
    /\ IF receiver = "first" /\ Head(pipe[c]) = Hello
       THEN UNCHANGED <<receiver, received>>
       ELSE received' = Append(received, <<c, Head(pipe[c])>>) /\ receiver' = "next"
    /\ UNCHANGED <<clientVars, shared, owner, server, helloThread, isReady, receivedHello>>

ReceiverShut ==
    /\ receiver \in {"first", "next"} /\ server = "shut"
    /\ receiver' = "ended"
    /\ UNCHANGED <<clientVars, shared, pipe, owner, server, helloThread, isReady,
                   receivedHello, received>>

-----------------------------------------------------------------------------
(* A client.                                                                 *)

\* NewPublishClient: the next attempt.
sendHello(c) ==
    /\ client[c] = "hello"
    /\ IF tries[c] < Retry
       THEN /\ pipe' = [pipe EXCEPT ![c] = Append(@, Hello)]
            /\ tries' = [tries EXCEPT ![c] = @ + 1]
            /\ client' = [client EXCEPT ![c] = "call"]
       ELSE client' = [client EXCEPT ![c] = "failed"] /\ UNCHANGED <<pipe, tries>>
    /\ UNCHANGED <<serverVars, shared, sent>>

\* The call reaches ZmqControlServiceImpl::hello, or fails.
helloCall(c) ==
    /\ client[c] = "call"
    /\ \/ shared' = shared \cup {c} /\ client' = [client EXCEPT ![c] = "reply"]
       \/ client' = [client EXCEPT ![c] = "hello"] /\ UNCHANGED shared
    /\ UNCHANGED <<serverVars, pipe, tries, sent>>

hello(c) ==
    /\ client[c] = "reply"
    /\ shared' = shared \ {c}
    /\ client' = [client EXCEPT ![c] =
                    IF server # "none" /\ isReady THEN "connected" ELSE "hello"]
    /\ UNCHANGED <<serverVars, pipe, tries, sent>>

send(c) ==
    /\ client[c] = "connected" /\ sent[c] < Messages
    /\ sent' = [sent EXCEPT ![c] = @ + 1]
    /\ pipe' = [pipe EXCEPT ![c] = Append(@, sent'[c])]
    /\ UNCHANGED <<serverVars, shared, client, tries>>

-----------------------------------------------------------------------------
Owner ==
    NewSubscribeServer \/ GetSubscribeServer \/ PutSubscribeServer \/ DestroySubscribeServer
HelloThread == HelloSignal \/ HelloShut \/ \E c \in Client : wait_hello(c)
Receiver == waitReady \/ ReceiverShut \/ \E c \in Client : receive(c)
Connect(c) == sendHello(c) \/ helloCall(c) \/ hello(c) \/ send(c)
Work == Owner \/ HelloThread \/ Receiver \/ \E c \in Client : Connect(c)
Next == Work \/ shutdown

Spec == Init /\ [][Next]_vars

\* A thread that can take a step takes one (none has an endless supply of
\* them); nothing makes the owner shut down.
Fairness == WF_vars(Work)

-----------------------------------------------------------------------------
Data(c) == SelectSeq(received, LAMBDA m : m[1] = c /\ m[2] # Hello)

\* DataInOrder: however often clients say hello and whichever thread is on the
\* socket, receive() first returns data, and of each client a gapless run of
\* its messages in order: the hello thread never takes one of them.
DataInOrder ==
    /\ received # <<>> => received[1][2] # Hello
    /\ \A c \in Client : \A i \in 1 .. Len(Data(c)) : Data(c)[i][2] = i

\* DataArrives: what a client that was told the connection stands sends is
\* received, unless the server is shut down: the receiver does not wait for
\* ever for the hello that the other thread has taken.
DataArrives ==
    \A c \in Client :
        client[c] = "connected" ~> (server # "up" \/ Len(Data(c)) = Messages)
=============================================================================
