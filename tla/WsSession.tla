----------------------------- MODULE WsSession ------------------------------
(***************************************************************************)
(* The web-socket sessions of the main task: the loop of                   *)
(* qwen_sdk_init_routine and mmi_wss_connect (example_qwen.c) over the     *)
(* client of component/network/websocket, with what a session holds of the *)
(* heap and of the TCP/IP stack.                                           *)
(*                                                                         *)
(* All of it runs on the main task, the handler of received data too; the  *)
(* environment is the server, the network and the cloud SDK, which asks    *)
(* for a session with the event DATA_INIT.                                 *)
(***************************************************************************)
EXTENDS WsContext, Naturals, Sequences

CONSTANTS
    MaxQueueSize,   \* max_queue_size of create_wsclient (3)
    MaxMessages,    \* bound: messages that arrive in one poll
    MaxSessions     \* bound: sessions the SDK asks for

ASSUME WsAssumption ==
    /\ MaxQueueSize \in Nat \ {0}
    /\ {MaxMessages, MaxSessions} \subseteq Nat

VARIABLES
    wssReady,               \* s_wss_ready_sem
    main,                   \* where the main task is
    buffers,                \* of the session: held, freed, or none without one
    rx,                     \* messages in rxbuf
    readyBufs, recycleBufs, \* send buffers waiting, and free
    contexts, sockets,      \* allocated and open in all
    bufferSets,             \* so with the rest: rxbuf, txbuf, send buffers,
                            \* queues, mutexes and TLS context of a session
    requests,               \* history: sessions asked for
    refused,                \* history: connections that failed
    aborted                 \* history: sessions ended with the connection open

session == <<readyState, buffers, rx, readyBufs, recycleBufs>>
heap    == <<contexts, sockets, bufferSets>>
history == <<requests, refused, aborted>>
sessionVars == <<wssReady, main, session, heap, history>>

Messages == {"data", "ping", "close", "bad"}

SessionInit ==
    /\ wssReady = 0 /\ main = "wait"
    /\ readyState = "CLOSED" /\ buffers = "none" /\ rx = <<>>
    /\ readyBufs = 0 /\ recycleBufs = 0
    /\ contexts = 0 /\ sockets = 0 /\ bufferSets = 0
    /\ requests = 0 /\ refused = 0 /\ aborted = 0

-----------------------------------------------------------------------------
(* Mutant: the socket stays open. *)
ClientCloseLeaving ==
    /\ readyState' = "CLOSED" /\ buffers' = "freed"
    /\ readyBufs' = 0 /\ recycleBufs' = 0
    /\ sockets' = sockets /\ bufferSets' = bufferSets - 1

(* wss_client_close: the connection, the buffers, the queues and the        *)
(* mutexes go; the context stays, for its readyState to be asked, and so    *)
(* does what rx_len says of the freed rxbuf.                                *)
ClientClose ==
    /\ readyState' = "CLOSED" /\ buffers' = "freed"
    /\ readyBufs' = 0 /\ recycleBufs' = 0
    /\ sockets' = IF readyState \in {"OPEN", "CLOSING"} THEN sockets - 1 ELSE sockets
    /\ bufferSets' = bufferSets - 1

(* ws_close: a CLOSE frame is sent, and the next ws_poll is left to close.  *)
WsClose == readyState' = IF readyState = "OPEN" THEN "CLOSING" ELSE readyState

-----------------------------------------------------------------------------

(* mmi_event_callback, DATA_INIT. *)
DataInit ==
    /\ requests < MaxSessions
    /\ wssReady' = 1 /\ requests' = requests + 1
    /\ UNCHANGED <<main, session, heap, refused, aborted>>

TakeReady ==
    /\ main = "wait" /\ wssReady = 1
    /\ wssReady' = 0 /\ main' = "create"
    /\ UNCHANGED <<session, heap, history>>

(* create_wsclient, with one free send buffer. *)
Create ==
    /\ main = "create"
    /\ contexts' = contexts + 1 /\ bufferSets' = bufferSets + 1
    /\ buffers' = "held" /\ rx' = <<>> /\ readyBufs' = 0 /\ recycleBufs' = 1
    /\ readyState' = "CONNECTING"
    /\ main' = "connect"
    /\ UNCHANGED <<wssReady, sockets, history>>

(* There is no memory for the context: mmi_wss_connect returns NULL. *)
CreateFails ==
    /\ main = "create"
    /\ main' = "wait"
    /\ UNCHANGED <<wssReady, session, heap, history>>

(* What fails after that closes the client, before the connection_mutex     *)
(* that ws_client_close takes has been made (and maybe with a sockfd not    *)
(* set yet).  What becomes of the device is not followed further.           *)
CreateFaults ==
    /\ main = "create"
    /\ main' = "stopped"
    /\ UNCHANGED <<wssReady, session, heap, history>>

(* ws_connect_url. *)
Connect ==
    /\ main = "connect"
    /\ readyState' = "OPEN" /\ sockets' = sockets + 1
    /\ main' = "poll"
    /\ UNCHANGED <<wssReady, buffers, rx, readyBufs, recycleBufs, contexts, bufferSets,
                   history>>

(* Mutant: a connection that failed is polled. *)
ConnectFailsUnnoticed ==
    /\ main = "connect"
    /\ ClientClose
    /\ refused' = refused + 1
    /\ main' = "poll"
    /\ UNCHANGED <<wssReady, rx, contexts, requests, aborted>>

(* ws_connect_url fails and closes; ws_close finds nothing open, and        *)
(* mmi_wss_connect returns NULL: the context is forgotten.                  *)
ConnectFails ==
    /\ main = "connect"
    /\ ClientClose
    /\ refused' = refused + 1
    /\ main' = "wait"
    /\ UNCHANGED <<wssReady, rx, contexts, requests, aborted>>

-----------------------------------------------------------------------------
(* Mutant: a connection being closed is left as it is. *)
PollClosingIdle ==
    /\ main = "poll" /\ readyState = "CLOSING"
    /\ main' = "check"
    /\ UNCHANGED <<wssReady, session, heap, history>>

(* ws_poll in the state CLOSING, or with a select that fails. *)
PollClosing ==
    /\ main = "poll" /\ readyState = "CLOSING"
    /\ ClientClose
    /\ main' = "check"
    /\ UNCHANGED <<wssReady, rx, contexts, history>>

PollSelectFails ==
    /\ main = "poll" /\ readyState = "OPEN"
    /\ ClientClose
    /\ main' = "check"
    /\ UNCHANGED <<wssReady, rx, contexts, history>>

PollTimeout ==
    /\ main = "poll" /\ readyState = "OPEN"
    /\ main' = "check"
    /\ UNCHANGED <<wssReady, session, heap, history>>

(* client_read returns whole messages, or nothing; or it fails. *)
PollRead(ms) ==
    /\ main = "poll" /\ readyState = "OPEN"
    /\ rx' = ms
    /\ main' = "dispatch"
    /\ UNCHANGED <<wssReady, readyState, buffers, readyBufs, recycleBufs, heap, history>>

PollReadFails ==
    /\ main = "poll" /\ readyState = "OPEN"
    /\ ClientClose
    /\ main' = "check"
    /\ UNCHANGED <<wssReady, rx, contexts, history>>

-----------------------------------------------------------------------------
(* ws_dispatchBinary, one message.  Data goes to mmi_ws_handler. *)
DispatchData ==
    /\ main = "dispatch" /\ buffers = "held" /\ rx # <<>> /\ Head(rx) = "data"
    /\ rx' = Tail(rx)
    /\ UNCHANGED <<wssReady, main, readyState, buffers, readyBufs, recycleBufs, heap, history>>

(* The answer to a PING is not sent once the state is CLOSING. *)
DispatchPing ==
    /\ main = "dispatch" /\ buffers = "held" /\ rx # <<>> /\ Head(rx) = "ping"
    /\ rx' = Tail(rx)
    /\ UNCHANGED <<wssReady, main, readyState, buffers, readyBufs, recycleBufs, heap, history>>

(* The answer cannot be sent: ws_sendData closes, and dispatching goes on. *)
DispatchPingFails ==
    /\ main = "dispatch" /\ buffers = "held" /\ rx # <<>> /\ Head(rx) = "ping"
    /\ readyState = "OPEN"
    /\ ClientClose
    /\ rx' = Tail(rx)
    /\ UNCHANGED <<wssReady, main, contexts, history>>

DispatchClose ==
    /\ main = "dispatch" /\ buffers = "held" /\ rx # <<>> /\ Head(rx) = "close"
    /\ WsClose
    /\ rx' = Tail(rx)
    /\ UNCHANGED <<wssReady, main, buffers, readyBufs, recycleBufs, heap, history>>

(* An unexpected message: the client closes and returns. *)
DispatchBad ==
    /\ main = "dispatch" /\ buffers = "held" /\ rx # <<>> /\ Head(rx) = "bad"
    /\ ClientClose
    /\ main' = "check"
    /\ UNCHANGED <<wssReady, rx, contexts, history>>

(* There is more in rx_len, and rxbuf is NULL.  What becomes of the device  *)
(* is not followed further.                                                 *)
DispatchFreed ==
    /\ main = "dispatch" /\ buffers = "freed" /\ rx # <<>>
    /\ main' = "fault"
    /\ UNCHANGED <<wssReady, session, heap, history>>

DispatchEnds ==
    /\ main = "dispatch" /\ rx = <<>>
    /\ main' = IF buffers = "held" THEN "drain" ELSE "check"
    /\ UNCHANGED <<wssReady, session, heap, history>>

(* ws_poll, the send buffers: one is sent and recycled; the stack takes no  *)
(* more, or there is none left; or sending fails.                           *)
Drain ==
    /\ main = "drain" /\ readyBufs > 0
    /\ recycleBufs' = recycleBufs + 1
    /\ readyBufs' = readyBufs - 1
    /\ UNCHANGED <<wssReady, main, readyState, buffers, rx, heap, history>>

DrainEnds ==
    /\ main = "drain"
    /\ main' = "check"
    /\ UNCHANGED <<wssReady, session, heap, history>>

DrainFails ==
    /\ main = "drain" /\ readyBufs > 0
    /\ ClientClose
    /\ main' = "check"
    /\ UNCHANGED <<wssReady, rx, contexts, history>>

-----------------------------------------------------------------------------
(* After ws_poll: a closed session is left. *)
CheckClosed ==
    /\ main = "check" /\ readyState = "CLOSED"
    /\ main' = "close"
    /\ UNCHANGED <<wssReady, session, heap, history>>

(* c_mmi_get_send_data has nothing. *)
NothingToSend ==
    /\ main = "check" /\ readyState # "CLOSED"
    /\ main' = "poll"
    /\ UNCHANGED <<wssReady, session, heap, history>>

(* ws_send_with_opcode: a free buffer is taken, or one allocated. *)
SendData ==
    /\ main = "check" /\ readyState = "OPEN"
    /\ recycleBufs > 0 \/ readyBufs + recycleBufs < MaxQueueSize
    /\ recycleBufs' = IF recycleBufs > 0 THEN recycleBufs - 1 ELSE 0
    /\ readyBufs' = readyBufs + 1
    /\ main' = "poll"
    /\ UNCHANGED <<wssReady, readyState, buffers, rx, heap, history>>

(* It fails: the session is CLOSING; every buffer is waiting and none comes *)
(* free, as only this task could send it; there is no memory for a header;  *)
SendRefused ==
    /\ main = "check" /\ readyState \in {"OPEN", "CLOSING"}
    /\ main' = "close" /\ aborted' = aborted + 1
    /\ UNCHANGED <<wssReady, session, heap, requests, refused>>

(* or there is none for a buffer, and the client closes. *)
SendOutOfMemory ==
    /\ main = "check" /\ readyState = "OPEN" /\ recycleBufs = 0 /\ readyBufs < MaxQueueSize
    /\ ClientClose
    /\ main' = "close"
    /\ UNCHANGED <<wssReady, rx, contexts, history>>

(* ws_close and ws_free: an open connection is marked CLOSING, and the      *)
(* context is freed with it, and only the context.  What the session still  *)
(* holds stays open and allocated; the state of a session, from here on,    *)
(* is that of none.                                                         *)
EndSession ==
    /\ main = "close"
    /\ contexts' = contexts - 1
    /\ readyState' = "CLOSED" /\ buffers' = "none" /\ rx' = <<>>
    /\ readyBufs' = 0 /\ recycleBufs' = 0
    /\ main' = "wait"
    /\ UNCHANGED <<wssReady, sockets, bufferSets, history>>

-----------------------------------------------------------------------------
Arrivals == UNION {[1..n -> Messages] : n \in 0..MaxMessages}

Poll     == PollClosing \/ PollSelectFails \/ PollTimeout \/ PollReadFails
            \/ \E ms \in Arrivals : PollRead(ms)
DispatchMessage ==
            \/ DispatchData \/ DispatchPing \/ DispatchPingFails \/ DispatchClose
            \/ DispatchBad \/ DispatchFreed \/ DispatchEnds
Send     == \/ Drain \/ DrainEnds \/ DrainFails
            \/ CheckClosed \/ NothingToSend \/ SendData \/ SendRefused \/ SendOutOfMemory
MainTask == \/ TakeReady \/ Create \/ CreateFails \/ CreateFaults \/ Connect \/ ConnectFails
            \/ Poll \/ DispatchMessage \/ Send \/ EndSession

SessionNext == DataInit \/ MainTask

SessionSpec == SessionInit /\ [][SessionNext]_sessionVars

(* The main task runs when it is ready. *)
FairSessionSpec == SessionSpec /\ WF_sessionVars(MainTask)

-----------------------------------------------------------------------------

(* ws_poll works on a connection that is there: its buffers are never gone  *)
(* when it reads or sends, and a session it found closed is not polled      *)
(* again.                                                                   *)
PolledIsLive ==
    main \in {"poll", "drain"} => (buffers = "held" /\ readyState \in {"OPEN", "CLOSING"})

(* The two send queues have room for every buffer there is, so that the     *)
(* blocking sends to them, on the task that empties them, return at once.   *)
BuffersFit == readyBufs + recycleBufs <= MaxQueueSize

(* What is left of past sessions, exactly: the context of each connection   *)
(* that failed; and of each session that was given up while its connection  *)
(* was open, all but the context: the socket, and the buffers, queues,      *)
(* mutexes and TLS context, which only wss_client_close releases.  Sessions *)
(* that were closed leave nothing.                                          *)
InSession == main \in {"connect", "poll", "dispatch", "drain", "check", "close", "fault"}
LeftBehind ==
    /\ contexts = refused + (IF InSession THEN 1 ELSE 0)
    /\ sockets = aborted
                 + (IF InSession /\ readyState \in {"OPEN", "CLOSING"} /\ main # "close"
                    THEN 1 ELSE 0)
    /\ bufferSets = aborted
                    + (IF InSession /\ buffers = "held" /\ main # "close" THEN 1 ELSE 0)

(* A session that the server is closing ends, and the main task waits for   *)
(* the next.  (The client's own ws_close comes last: it frees the context   *)
(* right after, and no poll meets that CLOSING.)                            *)
ClosingEnds == (readyState = "CLOSING") ~> (main \in {"wait", "fault"})

(* wsclient_api.c:162-163: after client_close dispatching should return,    *)
(* "otherwise while loop will parse rxbuf continuesly, while rxbuf has been *)
(* free in client_close".                                                   *)
NoParseAfterClose == main # "fault"
=============================================================================
