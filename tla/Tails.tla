---------------------------------- MODULE Tails ----------------------------------
(* Container logs, watched from a browser while they are written. Nothing is       *)
(* stored: a request opens a stream at the control plane (server/logs.go), the     *)
(* agent is asked to follow the container, and its chunks go from the goroutine    *)
(* of the tail (agent/logs.go) over whatever connection the agent has to the       *)
(* goroutine serving that connection, which hands them to the request's channel.   *)
(* One server, so one agent; a stream is one request, whose identifier is random   *)
(* and never used again, so a stream is asked for once.                            *)
EXTENDS Naturals, Sequences, FiniteSets

CONSTANTS
    Stream,     \* the requests for logs, each with a stream of its own
    MaxConns,   \* bound: the connections the agent makes, one after another
    MaxAway,    \* bound: the browsers that go away
    MaxLines,   \* bound: the batches of lines the containers write, all together
    Buffer,     \* what a request's channel holds (64 in the code)
    None        \* no connection, no message

ASSUME TailsAssumption ==
    /\ MaxConns \in Nat /\ MaxAway \in Nat /\ MaxLines \in Nat /\ Buffer \in Nat
    /\ None \notin Nat /\ None \notin [stream : Stream, done : BOOLEAN]

Conn == 1 .. MaxConns

VARIABLES
    socket,     \* a connection as the network has it
    hub,        \* the connection the control plane sends on
    serving,    \* the connections a goroutine of the control plane reads
    found,      \* the chunk that goroutine has looked up the channel of
    reader,     \* where a request is
    away,       \* the browser has gone: the request's context is cancelled
    at,         \* the connection a request was given
    watchers,   \* the registry: the streams whose channel is open
    queue,      \* a request's channel
    missed,     \* history: something was dropped because the channel was full
    toAgent, toServer,  \* what was written to a connection and not yet read
    session,    \* where the agent's session over a connection is
    conn,       \* the connection the agent writes to
    held,       \* the instruction the agent's goroutine reading a connection holds
    running,    \* the agent's tails
    tail,       \* the goroutine of a tail
    sent,       \* the batches of lines that were sent
    stopped     \* history: the streams the agent was told to stop

hubVars == <<socket, hub, serving>>
readerVars == <<reader, away, at, watchers>>
agentVars == <<session, conn, held, running, tail, sent, stopped>>
vars == <<socket, hub, serving, found, reader, away, at, watchers, queue, missed,
          toAgent, toServer, session, conn, held, running, tail, sent, stopped>>

TailLogs(s) == [type |-> "tail-logs", stream |-> s]
StopTailMsg(s) == [type |-> "stop-tail", stream |-> s]
Instruction == [type : {"tail-logs", "stop-tail"}, stream : Stream]
LogChunk == [stream : Stream, done : BOOLEAN]
ReaderState == {"idle", "opened", "reading", "leaving", "gone"}
SessionState == {"none", "running", "stopping", "cleared", "over"}
TailState == {"none", "streaming", "cancelled", "last", "ended"}

TailsInit ==
    /\ socket = [c \in Conn |-> "none"]
    /\ hub = None
    /\ serving = {}
    /\ found = [c \in Conn |-> None]
    /\ reader = [s \in Stream |-> "idle"]
    /\ away = [s \in Stream |-> FALSE]
    /\ at = [s \in Stream |-> None]
    /\ watchers = {}
    /\ queue = [s \in Stream |-> <<>>]
    /\ missed = [s \in Stream |-> FALSE]
    /\ toAgent = [c \in Conn |-> <<>>]
    /\ toServer = [c \in Conn |-> <<>>]
    /\ session = [c \in Conn |-> "none"]
    /\ conn = None
    /\ held = [c \in Conn |-> None]
    /\ running = {}
    /\ tail = [s \in Stream |-> "none"]
    /\ sent = 0
    /\ stopped = {}

------------------------------------------------------------------------------------
(* The library's write, of which a context that is cancelled makes a matter of     *)
(* chance: the lock is refused, the message goes through, or the connection is     *)
(* closed under it, for everybody, with the message gone or not.                   *)

Writes(c, wire, wire2, m) ==
    /\ socket[c] = "open"
    /\ wire2 = [wire EXCEPT ![c] = Append(@, m)]
    /\ UNCHANGED socket

WriteFails(c, wire, wire2, m, cancelled) ==
    \/ /\ socket[c] = "closed" \/ cancelled
       /\ wire2 = wire
       /\ UNCHANGED socket
    \/ /\ socket[c] = "open" /\ cancelled
       /\ wire2 \in {wire, [wire EXCEPT ![c] = Append(@, m)]}
       /\ socket' = [socket EXCEPT ![c] = "closed"]

(* The connection breaks, or either side closes it.                                *)
Lose(c) ==
    /\ socket[c] = "open"
    /\ socket' = [socket EXCEPT ![c] = "closed"]
    /\ UNCHANGED <<hub, serving, found, readerVars, queue, missed, toAgent, toServer, agentVars>>

------------------------------------------------------------------------------------
(* The control plane: a request for logs.                                          *)

(* Open, after the hub gave a connection: the channel is registered.               *)
Open(s) ==
    /\ reader[s] = "idle"
    /\ hub # None
    /\ reader' = [reader EXCEPT ![s] = "opened"]
    /\ at' = [at EXCEPT ![s] = hub]
    /\ watchers' = watchers \cup {s}
    /\ UNCHANGED <<hubVars, found, away, queue, missed, toAgent, toServer, agentVars>>

(* Close: the channel is closed and released.                                       *)
Close(s) == watchers' = watchers \ {s}

(* A variant: a request whose agent could not be asked leaves its stream open.     *)
TailContainerLeaves(s) ==
    /\ reader[s] = "opened"
    /\ \/ /\ Writes(at[s], toAgent, toAgent', TailLogs(s))
          /\ reader' = [reader EXCEPT ![s] = "reading"]
       \/ /\ WriteFails(at[s], toAgent, toAgent', TailLogs(s), away[s])
          /\ reader' = [reader EXCEPT ![s] = "gone"]
    /\ UNCHANGED <<hub, serving, found, away, at, watchers, queue, missed, toServer, agentVars>>

(* TailContainer: the agent is asked, or the stream is closed again.               *)
TailContainer(s) ==
    /\ reader[s] = "opened"
    /\ \/ /\ Writes(at[s], toAgent, toAgent', TailLogs(s))
          /\ reader' = [reader EXCEPT ![s] = "reading"]
          /\ UNCHANGED watchers
       \/ /\ WriteFails(at[s], toAgent, toAgent', TailLogs(s), away[s])
          /\ reader' = [reader EXCEPT ![s] = "gone"]
          /\ Close(s)
    /\ UNCHANGED <<hub, serving, found, away, at, queue, missed, toServer, agentVars>>

(* The browser goes away, which the request may not notice for as long as it likes. *)
GoAway(s) ==
    /\ reader[s] \in {"opened", "reading", "leaving"}
    /\ ~away[s]
    /\ Cardinality({r \in Stream : away[r]}) < MaxAway
    /\ away' = [away EXCEPT ![s] = TRUE]
    /\ UNCHANGED <<hubVars, found, reader, at, watchers, queue, missed, toAgent, toServer, agentVars>>

(* logs: the request takes a chunk and writes it out; it ends at the last one, and  *)
(* when it cannot write.                                                           *)
TakeChunk(s) ==
    /\ reader[s] = "reading"
    /\ queue[s] # <<>>
    /\ queue' = [queue EXCEPT ![s] = Tail(@)]
    /\ \/ ~Head(queue[s]).done /\ UNCHANGED reader
       \/ /\ Head(queue[s]).done \/ away[s]
          /\ reader' = [reader EXCEPT ![s] = "leaving"]
    /\ UNCHANGED <<hubVars, found, away, at, watchers, missed, toAgent, toServer, agentVars>>

(* logs: the cancelled context is what the request's select finds.                 *)
NoticeAway(s) ==
    /\ reader[s] = "reading" /\ away[s]
    /\ reader' = [reader EXCEPT ![s] = "leaving"]
    /\ UNCHANGED <<hubVars, found, away, at, watchers, queue, missed, toAgent, toServer, agentVars>>

(* StopTail: the agent is told on the request's own context and, whatever came of   *)
(* that, the stream closed. What is put in the channel between the two is not read. *)
StopTail(s) ==
    /\ reader[s] = "leaving"
    /\ \/ Writes(at[s], toAgent, toAgent', StopTailMsg(s))
       \/ WriteFails(at[s], toAgent, toAgent', StopTailMsg(s), away[s])
    /\ Close(s)
    /\ reader' = [reader EXCEPT ![s] = "gone"]
    /\ UNCHANGED <<hub, serving, found, away, at, queue, missed, toServer, agentVars>>

------------------------------------------------------------------------------------
(* The control plane: the goroutine serving a connection.                          *)

(* Deliver, up to the unlock: the channel is looked up; an unknown stream's chunk  *)
(* is dropped.                                                                     *)
LookUp(c) ==
    /\ c \in serving
    /\ found[c] = None
    /\ toServer[c] # <<>>
    /\ toServer' = [toServer EXCEPT ![c] = Tail(@)]
    /\ found' = [found EXCEPT ![c] =
                    IF Head(toServer[c]).stream \in watchers THEN Head(toServer[c]) ELSE None]
    /\ UNCHANGED <<hubVars, readerVars, queue, missed, toAgent, agentVars>>

(* A variant: a chunk is put in the channel whether or not there is room for it.   *)
DeliverUnbounded(c) ==
    /\ found[c] # None
    /\ found[c].stream \in watchers
    /\ queue' = [queue EXCEPT ![found[c].stream] = Append(@, found[c])]
    /\ found' = [found EXCEPT ![c] = None]
    /\ UNCHANGED <<hubVars, readerVars, missed, toAgent, toServer, agentVars>>

(* A variant: the connection waits for a reader that does not keep up.             *)
DeliverBlocking(c) ==
    /\ found[c] # None
    /\ found[c].stream \in watchers
    /\ Len(queue[found[c].stream]) < Buffer
    /\ queue' = [queue EXCEPT ![found[c].stream] = Append(@, found[c])]
    /\ found' = [found EXCEPT ![c] = None]
    /\ UNCHANGED <<hubVars, readerVars, missed, toAgent, toServer, agentVars>>

(* Deliver, after it: the chunk is put in the channel, or dropped when that is full. *)
Deliver(c) ==
    /\ found[c] # None
    /\ found[c].stream \in watchers
    /\ LET s == found[c].stream
           room == Len(queue[s]) < Buffer
       IN /\ queue' = [queue EXCEPT ![s] = IF room THEN Append(@, found[c]) ELSE @]
          /\ missed' = [missed EXCEPT ![s] = @ \/ ~room]
    /\ found' = [found EXCEPT ![c] = None]
    /\ UNCHANGED <<hubVars, readerVars, toAgent, toServer, agentVars>>

(* The goroutine ends: its connection is forgotten unless a newer one took its     *)
(* place, and closed, and what was not read from it is lost.                       *)
Remove(c) ==
    /\ serving' = serving \ {c}
    /\ found' = [found EXCEPT ![c] = None]
    /\ hub' = IF hub = c THEN None ELSE hub
    /\ socket' = [socket EXCEPT ![c] = "closed"]
    /\ toServer' = [toServer EXCEPT ![c] = <<>>]
    /\ UNCHANGED <<readerVars, queue, missed, toAgent, agentVars>>

(* Deliver, when the channel was closed in between: a send on a closed channel      *)
(* panics, and the goroutine of the connection ends.                               *)
DeliverClosed(c) ==
    /\ found[c] # None
    /\ found[c].stream \notin watchers
    /\ Remove(c)

(* readLoop finds its connection ended.                                            *)
ServeEnds(c) ==
    /\ c \in serving /\ found[c] = None
    /\ socket[c] = "closed"
    /\ Remove(c)

------------------------------------------------------------------------------------
(* The agent.                                                                      *)

(* A session begins: greeted, the connection is the one that is written to. At the *)
(* control plane it takes the place of the one before.                             *)
Connect(c) ==
    /\ conn = None
    /\ socket[c] = "none" /\ \A b \in Conn : b < c => session[b] = "over"
    /\ socket' = [b \in Conn |-> IF b = c THEN "open" ELSE IF b = hub THEN "closed" ELSE socket[b]]
    /\ hub' = c
    /\ serving' = serving \cup {c}
    /\ session' = [session EXCEPT ![c] = "running"]
    /\ conn' = c
    /\ UNCHANGED <<found, readerVars, queue, missed, toAgent, toServer, held, running, tail, sent, stopped>>

(* stopAll, by the end of a session: every tail is cancelled and forgotten.        *)
StopAll(c) ==
    /\ session[c] = "running"
    /\ socket[c] = "closed"
    /\ session' = [session EXCEPT ![c] = "stopping"]
    /\ tail' = [s \in Stream |-> IF s \in running /\ tail[s] = "streaming" THEN "cancelled" ELSE tail[s]]
    /\ running' = {}
    /\ UNCHANGED <<hubVars, found, readerVars, queue, missed, toAgent, toServer, conn, held, sent, stopped>>

(* The connection is dropped once whoever writes to it is done, so some time later. *)
ClearConn(c) ==
    /\ session[c] = "stopping"
    /\ session' = [session EXCEPT ![c] = "cleared"]
    /\ conn' = None
    /\ UNCHANGED <<hubVars, found, readerVars, queue, missed, toAgent, toServer, held, running, tail,
                   sent, stopped>>

(* CloseNow: only now does the goroutine reading the connection get nothing more;   *)
(* what it had yet to read is lost.                                                *)
CloseNow(c) ==
    /\ session[c] = "cleared"
    /\ session' = [session EXCEPT ![c] = "over"]
    /\ toAgent' = [toAgent EXCEPT ![c] = <<>>]
    /\ UNCHANGED <<hubVars, found, readerVars, queue, missed, toServer, conn, held, running,
                   tail, sent, stopped>>

(* A variant: instructions are acted on in any order.                              *)
ReceiveUnordered(c) ==
    /\ session[c] \in {"running", "stopping", "cleared"}
    /\ held[c] = None
    /\ \E i \in 1 .. Len(toAgent[c]) :
        /\ held' = [held EXCEPT ![c] = toAgent[c][i]]
        /\ toAgent' = [toAgent EXCEPT ![c] = SubSeq(@, 1, i - 1) \o SubSeq(@, i + 1, Len(@))]
    /\ UNCHANGED <<hubVars, found, readerVars, queue, missed, toServer, session, conn, running, tail, sent, stopped>>

(* The goroutine reading a connection takes an instruction: also one that came      *)
(* before the connection broke, while its session is ending, and it may still hold *)
(* it when the session is over.                                                    *)
Receive(c) ==
    /\ session[c] \in {"running", "stopping", "cleared"}
    /\ held[c] = None
    /\ toAgent[c] # <<>>
    /\ held' = [held EXCEPT ![c] = Head(toAgent[c])]
    /\ toAgent' = [toAgent EXCEPT ![c] = Tail(@)]
    /\ UNCHANGED <<hubVars, found, readerVars, queue, missed, toServer, session, conn, running, tail, sent, stopped>>

(* A variant: a tail's goroutine starts without being registered.                  *)
StartTailUnregistered(c) ==
    /\ held[c] # None
    /\ held[c].type = "tail-logs"
    /\ tail' = [tail EXCEPT ![held[c].stream] = "streaming"]
    /\ held' = [held EXCEPT ![c] = None]
    /\ UNCHANGED <<hubVars, found, readerVars, queue, missed, toAgent, toServer, session, conn, running, sent, stopped>>

(* startTail: registered before its goroutine starts.                              *)
StartTail(c) ==
    /\ held[c] # None
    /\ held[c].type = "tail-logs"
    /\ running' = running \cup {held[c].stream}
    /\ tail' = [tail EXCEPT ![held[c].stream] = "streaming"]
    /\ held' = [held EXCEPT ![c] = None]
    /\ UNCHANGED <<hubVars, found, readerVars, queue, missed, toAgent, toServer, session, conn, sent, stopped>>

(* stop, of a stream that is running or is not.                                    *)
Stop(c) ==
    /\ held[c] # None
    /\ held[c].type = "stop-tail"
    /\ LET s == held[c].stream IN
        /\ tail' = [tail EXCEPT ![s] = IF s \in running /\ @ = "streaming" THEN "cancelled" ELSE @]
        /\ running' = running \ {s}
        /\ stopped' = stopped \cup {s}
    /\ held' = [held EXCEPT ![c] = None]
    /\ UNCHANGED <<hubVars, found, readerVars, queue, missed, toAgent, toServer, session, conn, sent>>

(* sendLogChunk: on the connection there is, or nowhere.                           *)
SendLogChunk(chunk, cancelled) ==
    \/ conn = None /\ UNCHANGED <<socket, toServer>>
    \/ conn # None /\ Writes(conn, toServer, toServer', chunk)
    \/ conn # None /\ WriteFails(conn, toServer, toServer', chunk, cancelled)

(* forwardLines: a batch is sent. A tail that was cancelled may find the tick, or a *)
(* line, before it finds that.                                                     *)
ForwardLines(s) ==
    /\ tail[s] \in {"streaming", "cancelled"}
    /\ sent < MaxLines
    /\ sent' = sent + 1
    /\ SendLogChunk([stream |-> s, done |-> FALSE], tail[s] = "cancelled")
    /\ UNCHANGED <<hub, serving, found, readerVars, queue, missed, toAgent, session, conn, held, running, tail, stopped>>

(* streamLogs returns: the container's log has ended, cannot be read, or was       *)
(* cancelled.                                                                      *)
LogEnds(s) ==
    /\ tail[s] \in {"streaming", "cancelled"}
    /\ tail' = [tail EXCEPT ![s] = "last"]
    /\ UNCHANGED <<hubVars, found, readerVars, queue, missed, toAgent, toServer, session, conn, held, running, sent, stopped>>

(* The end of a tail's goroutine: the last chunk, on the context that outlives the *)
(* tail, and the stream forgotten.                                                 *)
SendDone(s) ==
    /\ tail[s] = "last"
    /\ SendLogChunk([stream |-> s, done |-> TRUE], FALSE)
    /\ tail' = [tail EXCEPT ![s] = "ended"]
    /\ running' = running \ {s}
    /\ UNCHANGED <<hub, serving, found, readerVars, queue, missed, toAgent, session, conn, held, sent, stopped>>

------------------------------------------------------------------------------------
HandlerStep(s) ==
    \/ Open(s) \/ TailContainer(s) \/ GoAway(s) \/ TakeChunk(s) \/ NoticeAway(s)
    \/ StopTail(s)

ServeStep(c) == LookUp(c) \/ Deliver(c) \/ DeliverClosed(c) \/ ServeEnds(c)

SessionStep(c) ==
    \/ Connect(c) \/ StopAll(c) \/ ClearConn(c) \/ CloseNow(c)
    \/ Receive(c) \/ StartTail(c) \/ Stop(c)

TailStep(s) == ForwardLines(s) \/ LogEnds(s) \/ SendDone(s)

TailsNext ==
    \/ \E s \in Stream : HandlerStep(s) \/ TailStep(s)
    \/ \E c \in Conn : ServeStep(c) \/ SessionStep(c) \/ Lose(c)

(* What the program's own goroutines are bound to do, each of them one step after   *)
(* another: a request's, a tail's, the one serving a connection, the agent's session *)
(* and the one reading for it. Not fair: the browser, which may stop reading without *)
(* going away, the container, which may write for ever, and the network.           *)
TailsFairness ==
    /\ \A s \in Stream :
        /\ WF_vars(TailContainer(s) \/ NoticeAway(s) \/ StopTail(s))
        /\ WF_vars(SendDone(s))
    /\ \A c \in Conn :
        /\ WF_vars(ServeStep(c))
        /\ WF_vars(StopAll(c) \/ ClearConn(c) \/ CloseNow(c))
        /\ WF_vars(Receive(c) \/ StartTail(c) \/ Stop(c))

TailsSpec == TailsInit /\ [][TailsNext]_vars /\ TailsFairness

------------------------------------------------------------------------------------
(* Types, and that no channel holds more than it can.                              *)
TailsTypeOK ==
    /\ socket \in [Conn -> {"none", "open", "closed"}]
    /\ hub \in Conn \cup {None}
    /\ serving \subseteq Conn
    /\ found \in [Conn -> LogChunk \cup {None}]
    /\ reader \in [Stream -> ReaderState]
    /\ away \in [Stream -> BOOLEAN]
    /\ at \in [Stream -> Conn \cup {None}]
    /\ watchers \subseteq Stream
    /\ queue \in [Stream -> Seq(LogChunk)]
    /\ \A s \in Stream : Len(queue[s]) <= Buffer
    /\ missed \in [Stream -> BOOLEAN]
    /\ toAgent \in [Conn -> Seq(Instruction)]
    /\ toServer \in [Conn -> Seq(LogChunk)]
    /\ session \in [Conn -> SessionState]
    /\ conn \in Conn \cup {None}
    /\ held \in [Conn -> Instruction \cup {None}]
    /\ running \subseteq Stream
    /\ tail \in [Stream -> TailState]
    /\ sent \in 0 .. MaxLines
    /\ stopped \subseteq Stream

(* A container whose reader has told the agent to stop is never followed again:     *)
(* the request for it cannot come after, whichever goroutines the two pass.        *)
StoppedStaysStopped == \A s \in stopped : tail[s] # "streaming"

(* What ends with a session (agent.go:367): every tail there is as stopAll is       *)
(* called, whichever session's goroutine started it. Not what clearConn is said to  *)
(* do, "ends anything streaming on it" (agent.go:364): between stopAll and the       *)
(* connection being dropped, and after, an instruction may still be taken and acted *)
(* on. The tail it starts follows its container without a connection, and its stop  *)
(* has no way to reach the agent. It ends with the first session to end after it    *)
(* started, for it is in the list that stopAll goes through, however late it came.  *)
SessionEndsItsTails ==
    [][\A c \in Conn : session[c] = "running" /\ session'[c] # "running" =>
        \A s \in Stream : tail'[s] # "streaming"]_vars

(* A request whose browser has gone ends, and its stream is released, whatever has *)
(* become of the connection and whether or not the agent could be told.            *)
Released == \A s \in Stream : away[s] ~> (reader[s] = "gone" /\ s \notin watchers)

(* The end of a container's log reaches whoever watches it, unless the connection  *)
(* is lost or the watcher did not keep up: another one that does not, or that has  *)
(* gone, is not waited for.                                                        *)
LastChunkArrives ==
    \A s \in Stream :
        (reader[s] = "reading" /\ tail[s] = "last" /\ conn = at[s] /\ socket[at[s]] = "open")
            ~> \/ reader[s] # "reading"
               \/ socket[at[s]] = "closed"
               \/ missed[s]
               \/ \E i \in 1 .. Len(queue[s]) : queue[s][i].done

================================================================================
