------------------------------- MODULE TailsProofs -------------------------------
(* Theorems about Tails: the types, that a stream which was stopped stays stopped, *)
(* that a session that ends takes its tails with it, and that the end of a tail is *)
(* ahead of whoever reads it, for any number of requests and connections.          *)
EXTENDS Tails, TLAPS

(* Instructions about a stream travel on the connection its request was given.     *)
Routed ==
    \A c \in Conn :
        /\ held[c] # None => at[held[c].stream] = c
        /\ \A i \in 1 .. Len(toAgent[c]) : at[toAgent[c][i].stream] = c

(* Before a request has asked, nothing about its stream is under way.              *)
AskedFirst ==
    \A s \in Stream : reader[s] \in {"idle", "opened"} =>
        /\ s \notin stopped
        /\ \A c \in Conn :
            /\ held[c] # None => held[c].stream # s
            /\ \A i \in 1 .. Len(toAgent[c]) : toAgent[c][i].stream # s

(* The request to follow never comes behind the one to stop.                       *)
StopLast ==
    \A c \in Conn :
        /\ \A i, j \in 1 .. Len(toAgent[c]) :
            i < j /\ toAgent[c][i].type = "stop-tail" /\ toAgent[c][j].type = "tail-logs"
                => toAgent[c][i].stream # toAgent[c][j].stream
        /\ \A j \in 1 .. Len(toAgent[c]) :
            held[c] # None /\ held[c].type = "stop-tail" /\ toAgent[c][j].type = "tail-logs"
                => held[c].stream # toAgent[c][j].stream

(* Nor after the stop was acted on.                                                *)
NotAskedAgain ==
    \A c \in Conn :
        /\ held[c] # None /\ held[c].type = "tail-logs" => held[c].stream \notin stopped
        /\ \A j \in 1 .. Len(toAgent[c]) :
            toAgent[c][j].type = "tail-logs" => toAgent[c][j].stream \notin stopped

(* A tail that nobody has stopped is in the agent's list.                          *)
Registered == \A s \in Stream : tail[s] = "streaming" => s \in running

(* A request that has begun was given a connection.                                *)
Given == \A s \in Stream : reader[s] # "idle" => at[s] \in Conn

(* What is open is the connection the agent writes to, and no request was given one *)
(* that had yet to be made.                                                         *)
OpenIsCurrent == \A c \in Conn : socket[c] = "open" => conn = c

(* A session ends when its connection has, and until it has let go of that no other *)
(* begins.                                                                          *)
EndedIsClosed == \A c \in Conn : session[c] \notin {"none", "running"} => socket[c] = "closed"
SessionIsCurrent == \A c \in Conn : session[c] \in {"running", "stopping"} => conn = c
Sessions == EndedIsClosed /\ SessionIsCurrent
GivenMade ==
    /\ hub # None => socket[hub] # "none"
    /\ \A s \in Stream : at[s] # None => socket[at[s]] # "none"

(* The registry holds the streams of the requests that have yet to end, and no more. *)
WatchersAreRequests ==
    \A s \in Stream : s \in watchers <=> reader[s] \in {"opened", "reading", "leaving"}

(* The last chunk of a stream, on the connection, looked up or in the channel.       *)
LastChunk(s) == [stream |-> s, done |-> TRUE]
OnTheWire(s) == \E i \in 1 .. Len(toServer[at[s]]) : toServer[at[s]][i] = LastChunk(s)
InTheChannel(s) == \E i \in 1 .. Len(queue[s]) : queue[s][i].done
OnItsWay(s) == OnTheWire(s) \/ found[at[s]] = LastChunk(s) \/ InTheChannel(s)

(* A request that still reads, of a tail that has ended, has the end ahead of it.    *)
EndIsOnItsWay ==
    \A s \in Stream :
        reader[s] = "reading" /\ tail[s] = "ended" /\ socket[at[s]] = "open" /\ ~missed[s]
            => OnItsWay(s)

(* Before a request has asked, nothing follows its container.                       *)
NothingFollowed == \A s \in Stream : reader[s] \in {"idle", "opened"} => tail[s] = "none"

------------------------------------------------------------------------------------
(* What a write leaves of the instructions: as they were, or with the message at their end. *)
LEMMA InstructionsAfter ==
    ASSUME TailsTypeOK, NEW c \in Conn, NEW m \in Instruction, NEW cancelled \in BOOLEAN,
           Writes(c, toAgent, toAgent', m) \/ WriteFails(c, toAgent, toAgent', m, cancelled)
    PROVE  /\ toAgent' \in [Conn -> Seq(Instruction)]
           /\ toAgent' \in {toAgent, [toAgent EXCEPT ![c] = Append(@, m)]}
           /\ socket' \in [Conn -> {"none", "open", "closed"}]
<1>1. toAgent' \in {toAgent, [toAgent EXCEPT ![c] = Append(@, m)]}
    BY DEF Writes, WriteFails
<1>2. [toAgent EXCEPT ![c] = Append(@, m)] \in [Conn -> Seq(Instruction)]
    BY DEF TailsTypeOK
<1>3. socket' \in [Conn -> {"none", "open", "closed"}]
    BY DEF Writes, WriteFails, TailsTypeOK
<1> QED
    BY <1>1, <1>2, <1>3 DEF TailsTypeOK

(* What a write leaves of the chunks: as they were, or with the message at their end. *)
LEMMA ChunksAfter ==
    ASSUME TailsTypeOK, NEW c \in Conn, NEW m \in LogChunk, NEW cancelled \in BOOLEAN,
           Writes(c, toServer, toServer', m) \/ WriteFails(c, toServer, toServer', m, cancelled)
    PROVE  /\ toServer' \in [Conn -> Seq(LogChunk)]
           /\ toServer' \in {toServer, [toServer EXCEPT ![c] = Append(@, m)]}
           /\ socket' \in [Conn -> {"none", "open", "closed"}]
<1>1. toServer' \in {toServer, [toServer EXCEPT ![c] = Append(@, m)]}
    BY DEF Writes, WriteFails
<1>2. [toServer EXCEPT ![c] = Append(@, m)] \in [Conn -> Seq(LogChunk)]
    BY DEF TailsTypeOK
<1>3. socket' \in [Conn -> {"none", "open", "closed"}]
    BY DEF Writes, WriteFails, TailsTypeOK
<1> QED
    BY <1>1, <1>2, <1>3 DEF TailsTypeOK

(* The messages are what they should be.                                            *)
LEMMA Messages ==
    ASSUME NEW s \in Stream
    PROVE  /\ TailLogs(s) \in Instruction /\ StopTailMsg(s) \in Instruction
           /\ TailLogs(s).type = "tail-logs" /\ TailLogs(s).stream = s
           /\ StopTailMsg(s).type = "stop-tail" /\ StopTailMsg(s).stream = s
BY DEF TailLogs, StopTailMsg, Instruction

(* Types are kept by what a request does.                                           *)
LEMMA HandlerTypes ==
    ASSUME TailsTypeOK, Given, NEW s \in Stream, HandlerStep(s)
    PROVE  TailsTypeOK' /\ Given'
<1> USE DEF TailsTypeOK, Given, agentVars, readerVars, hubVars, ReaderState
<1>1. CASE Open(s)
    <2>1. hub \in Conn
        BY <1>1 DEF Open
    <2> QED
        BY <1>1, <2>1 DEF Open
<1>2. CASE TailContainer(s)
    <2>1. /\ at[s] \in Conn
          /\ Writes(at[s], toAgent, toAgent', TailLogs(s))
                \/ WriteFails(at[s], toAgent, toAgent', TailLogs(s), away[s])
        BY <1>2 DEF TailContainer
    <2>2. toAgent' \in [Conn -> Seq(Instruction)] /\ socket' \in [Conn -> {"none", "open", "closed"}]
        BY <2>1, Messages, InstructionsAfter
    <2>3. reader' \in [Stream -> ReaderState] /\ watchers' \subseteq Stream
        BY <1>2 DEF TailContainer, Close
    <2>4. \A r \in Stream : reader'[r] # "idle" => reader[r] # "idle"
        BY <1>2 DEF TailContainer
    <2> QED
        BY <1>2, <2>2, <2>3, <2>4 DEF TailContainer
<1>3. CASE StopTail(s)
    <2>1. /\ at[s] \in Conn
          /\ Writes(at[s], toAgent, toAgent', StopTailMsg(s))
                \/ WriteFails(at[s], toAgent, toAgent', StopTailMsg(s), away[s])
        BY <1>3 DEF StopTail
    <2>2. toAgent' \in [Conn -> Seq(Instruction)] /\ socket' \in [Conn -> {"none", "open", "closed"}]
        BY <2>1, Messages, InstructionsAfter
    <2>3. reader' \in [Stream -> ReaderState] /\ watchers' \subseteq Stream
        BY <1>3 DEF StopTail, Close
    <2> QED
        BY <1>3, <2>2, <2>3 DEF StopTail
<1>4. CASE GoAway(s)
    BY <1>4 DEF GoAway
<1>5. CASE TakeChunk(s)
    <2>1. queue' \in [Stream -> Seq(LogChunk)] /\ \A r \in Stream : Len(queue'[r]) <= Buffer
        BY <1>5, TailsAssumption DEF TakeChunk
    <2>2. reader' \in [Stream -> ReaderState]
        BY <1>5 DEF TakeChunk
    <2>3. \A r \in Stream : reader'[r] # "idle" => reader[r] # "idle"
        BY <1>5 DEF TakeChunk
    <2> QED
        BY <1>5, <2>1, <2>2, <2>3 DEF TakeChunk
<1>6. CASE NoticeAway(s)
    BY <1>6 DEF NoticeAway
<1> QED
    BY <1>1, <1>2, <1>3, <1>4, <1>5, <1>6 DEF HandlerStep

(* Types are kept by the goroutine serving a connection.                            *)
LEMMA ServeTypes ==
    ASSUME TailsTypeOK, NEW c \in Conn, ServeStep(c)
    PROVE  TailsTypeOK'
<1> USE DEF TailsTypeOK, agentVars, readerVars, hubVars
<1>1. CASE LookUp(c)
    <2>1. toServer' \in [Conn -> Seq(LogChunk)] /\ Head(toServer[c]) \in LogChunk
        BY <1>1 DEF LookUp
    <2>2. found' \in [Conn -> LogChunk \cup {None}]
        BY <1>1, <2>1 DEF LookUp
    <2> QED
        BY <1>1, <2>1, <2>2 DEF LookUp
<1>2. CASE Deliver(c)
    <2>1. found[c] \in LogChunk /\ found[c].stream \in Stream
        BY <1>2 DEF Deliver, LogChunk
    <2>2. queue' \in [Stream -> Seq(LogChunk)] /\ \A s \in Stream : Len(queue'[s]) <= Buffer
        BY <1>2, <2>1, TailsAssumption DEF Deliver
    <2>3. missed' \in [Stream -> BOOLEAN]
        BY <1>2 DEF Deliver
    <2>4. found' \in [Conn -> LogChunk \cup {None}]
        BY <1>2 DEF Deliver
    <2> QED
        BY <1>2, <2>2, <2>3, <2>4 DEF Deliver
<1>3. CASE DeliverClosed(c) \/ ServeEnds(c)
    <2>1. toServer' = [toServer EXCEPT ![c] = <<>>] /\ <<>> \in Seq(LogChunk)
        BY <1>3 DEF DeliverClosed, ServeEnds, Remove
    <2>2. toServer' \in [Conn -> Seq(LogChunk)]
        BY <2>1
    <2> QED
        BY <1>3, <2>2 DEF DeliverClosed, ServeEnds, Remove
<1> QED
    BY <1>1, <1>2, <1>3 DEF ServeStep

(* Types are kept by the agent's sessions.                                          *)
LEMMA SessionTypes ==
    ASSUME TailsTypeOK, NEW c \in Conn, SessionStep(c)
    PROVE  TailsTypeOK'
<1> USE DEF TailsTypeOK, readerVars, hubVars, TailState, SessionState
<1>1. CASE Connect(c)
    BY <1>1 DEF Connect
<1>2. CASE StopAll(c) \/ ClearConn(c)
    BY <1>2 DEF StopAll, ClearConn
<1>6. CASE CloseNow(c)
    <2>1. toAgent' \in [Conn -> Seq(Instruction)]
        BY <1>6 DEF CloseNow
    <2> QED
        BY <1>6, <2>1 DEF CloseNow
<1>3. CASE Receive(c)
    <2>1. toAgent' \in [Conn -> Seq(Instruction)] /\ Head(toAgent[c]) \in Instruction
        BY <1>3 DEF Receive
    <2> QED
        BY <1>3, <2>1 DEF Receive
<1>4. CASE StartTail(c)
    <2>1. held[c].stream \in Stream
        BY <1>4 DEF StartTail, Instruction
    <2> QED
        BY <1>4, <2>1 DEF StartTail
<1>5. CASE Stop(c)
    <2>1. held[c].stream \in Stream
        BY <1>5 DEF Stop, Instruction
    <2> QED
        BY <1>5, <2>1 DEF Stop
<1> QED
    BY <1>1, <1>2, <1>3, <1>4, <1>5, <1>6 DEF SessionStep

(* Types are kept by a chunk that is sent, which is put behind those sent before.   *)
LEMMA ChunkTypes ==
    ASSUME TailsTypeOK, NEW s \in Stream, NEW done \in BOOLEAN, NEW cancelled \in BOOLEAN,
           SendLogChunk([stream |-> s, done |-> done], cancelled)
    PROVE  /\ socket' \in [Conn -> {"none", "open", "closed"}]
           /\ toServer' \in [Conn -> Seq(LogChunk)]
           /\ toServer' \in {toServer, [toServer EXCEPT ![conn] = Append(@, [stream |-> s, done |-> done])]}
<1> DEFINE chunk == [stream |-> s, done |-> done]
<1>1. chunk \in LogChunk
    BY DEF LogChunk
<1>2. CASE conn = None /\ UNCHANGED <<socket, toServer>>
    BY <1>2 DEF TailsTypeOK
<1>3. CASE /\ conn # None
           /\ Writes(conn, toServer, toServer', chunk) \/ WriteFails(conn, toServer, toServer', chunk, cancelled)
    <2>1. conn \in Conn
        BY <1>3 DEF TailsTypeOK
    <2> HIDE DEF chunk
    <2>2. /\ socket' \in [Conn -> {"none", "open", "closed"}] /\ toServer' \in [Conn -> Seq(LogChunk)]
          /\ toServer' \in {toServer, [toServer EXCEPT ![conn] = Append(@, chunk)]}
        BY <1>1, <1>3, <2>1, ChunksAfter
    <2> QED
        BY <2>2 DEF chunk
<1> QED
    BY <1>2, <1>3 DEF SendLogChunk

(* Types are kept by a tail.                                                        *)
LEMMA TailTypes ==
    ASSUME TailsTypeOK, NEW s \in Stream, TailStep(s)
    PROVE  TailsTypeOK'
<1>1. CASE ForwardLines(s)
    <2>1. socket' \in [Conn -> {"none", "open", "closed"}] /\ toServer' \in [Conn -> Seq(LogChunk)]
        BY <1>1, ChunkTypes DEF ForwardLines
    <2>2. sent' \in 0 .. MaxLines
        BY <1>1, TailsAssumption DEF ForwardLines, TailsTypeOK
    <2> QED
        BY <1>1, <2>1, <2>2 DEF ForwardLines, TailsTypeOK, readerVars
<1>2. CASE LogEnds(s)
    BY <1>2 DEF LogEnds, TailsTypeOK, readerVars, hubVars, TailState
<1>3. CASE SendDone(s)
    <2>1. socket' \in [Conn -> {"none", "open", "closed"}] /\ toServer' \in [Conn -> Seq(LogChunk)]
        BY <1>3, ChunkTypes DEF SendDone
    <2> QED
        BY <1>3, <2>1 DEF SendDone, TailsTypeOK, readerVars, TailState
<1> QED
    BY <1>1, <1>2, <1>3 DEF TailStep

------------------------------------------------------------------------------------
(* What the instructions' order depends on, apart from the types.                   *)
Order == Registered /\ Routed /\ AskedFirst /\ StopLast /\ NotAskedAgain /\ StoppedStaysStopped

(* A step that touches no instruction, starts no tail and asks for nothing leaves   *)
(* the order as it was.                                                             *)
LEMMA QuietStep ==
    ASSUME TailsTypeOK, Order,
           UNCHANGED <<at, toAgent, held, stopped>>,
           \A s \in Stream : reader'[s] \in {"idle", "opened"} => reader[s] \in {"idle", "opened"},
           \A s \in Stream : tail'[s] = "streaming" => tail[s] = "streaming" /\ (s \in running => s \in running')
    PROVE  Order'
<1>1. Registered'
    BY DEF Order, Registered
<1>2. Routed' /\ StopLast' /\ NotAskedAgain'
    BY DEF Order, Routed, StopLast, NotAskedAgain
<1>3. AskedFirst'
    BY DEF Order, AskedFirst
<1>4. StoppedStaysStopped'
    BY DEF TailsTypeOK, Order, StoppedStaysStopped
<1> QED
    BY <1>1, <1>2, <1>3, <1>4 DEF Order

(* An instruction is put behind the others on the connection its request was given. *)
LEMMA SentStep ==
    ASSUME TailsTypeOK, Order, NEW s \in Stream, NEW m \in Instruction, m.stream = s,
           at[s] \in Conn,
           m.type = "tail-logs" => reader[s] = "opened",
           toAgent' \in {toAgent, [toAgent EXCEPT ![at[s]] = Append(@, m)]},
           reader'[s] \notin {"idle", "opened"},
           \A r \in Stream \ {s} : reader'[r] = reader[r],
           UNCHANGED <<at, held, stopped, running, tail>>
    PROVE  Order'
<1> DEFINE c == at[s]
<1>0. \A d \in Conn : \A i \in 1 .. Len(toAgent'[d]) :
        \/ i \in 1 .. Len(toAgent[d]) /\ toAgent'[d][i] = toAgent[d][i]
        \/ d = c /\ i = Len(toAgent[c]) + 1 /\ toAgent'[d][i] = m
    <2> TAKE d \in Conn
    <2> TAKE i \in 1 .. Len(toAgent'[d])
    <2>1. toAgent[d] \in Seq(Instruction)
        BY DEF TailsTypeOK
    <2>2. CASE toAgent'[d] = toAgent[d]
        BY <2>2
    <2>3. CASE d = c /\ toAgent'[d] = Append(toAgent[d], m)
        <3>1. Len(toAgent'[d]) = Len(toAgent[d]) + 1 /\ Len(toAgent[d]) \in Nat
            BY <2>1, <2>3
        <3>2. CASE i = Len(toAgent[d]) + 1
            BY <2>1, <2>3, <3>2
        <3>3. CASE i \in 1 .. Len(toAgent[d])
            BY <2>1, <2>3, <3>3
        <3> QED
            BY <2>3, <3>1, <3>2, <3>3
    <2> QED
        BY <2>2, <2>3 DEF TailsTypeOK
<1>a. \A d \in Conn : Len(toAgent[d]) \in Nat /\ Len(toAgent'[d]) \in Nat
    <2>1. \A d \in Conn : toAgent'[d] \in {toAgent[d], Append(toAgent[d], m)}
        BY DEF TailsTypeOK
    <2> QED
        BY <2>1 DEF TailsTypeOK
<1> HIDE DEF c
<1>1. Routed'
    BY <1>0 DEF c, Order, Routed
<1>2. AskedFirst'
    BY <1>0 DEF Order, AskedFirst
<1>3. NotAskedAgain'
    <2>1. m.type = "tail-logs" => s \notin stopped
        BY DEF Order, AskedFirst
    <2> QED
        BY <1>0, <2>1 DEF Order, NotAskedAgain
<1>4. StopLast'
    <2>1. m.type = "tail-logs" =>
            \A d \in Conn : /\ held[d] # None => held[d].stream # s
                            /\ \A i \in 1 .. Len(toAgent[d]) : toAgent[d][i].stream # s
        BY DEF Order, AskedFirst
    <2> SUFFICES ASSUME NEW d \in Conn
                 PROVE  /\ \A i, j \in 1 .. Len(toAgent'[d]) :
                            i < j /\ toAgent'[d][i].type = "stop-tail" /\ toAgent'[d][j].type = "tail-logs"
                                => toAgent'[d][i].stream # toAgent'[d][j].stream
                        /\ \A j \in 1 .. Len(toAgent'[d]) :
                            held[d] # None /\ held[d].type = "stop-tail" /\ toAgent'[d][j].type = "tail-logs"
                                => held[d].stream # toAgent'[d][j].stream
        BY DEF StopLast
    <2>2. ASSUME NEW i \in 1 .. Len(toAgent'[d]), NEW j \in 1 .. Len(toAgent'[d]), i < j,
                 toAgent'[d][i].type = "stop-tail", toAgent'[d][j].type = "tail-logs"
          PROVE  toAgent'[d][i].stream # toAgent'[d][j].stream
        <3>1. i \in 1 .. Len(toAgent[d]) /\ toAgent'[d][i] = toAgent[d][i]
            BY <1>0, <1>a, <2>2
        <3>2. CASE j \in 1 .. Len(toAgent[d]) /\ toAgent'[d][j] = toAgent[d][j]
            BY <2>2, <3>1, <3>2 DEF Order, StopLast
        <3>3. CASE toAgent'[d][j] = m
            BY <2>1, <2>2, <3>1, <3>3
        <3> QED
            BY <1>0, <3>2, <3>3
    <2>3. ASSUME NEW j \in 1 .. Len(toAgent'[d]), held[d] # None,
                 held[d].type = "stop-tail", toAgent'[d][j].type = "tail-logs"
          PROVE  held[d].stream # toAgent'[d][j].stream
        <3>1. CASE j \in 1 .. Len(toAgent[d]) /\ toAgent'[d][j] = toAgent[d][j]
            BY <2>3, <3>1 DEF Order, StopLast
        <3>2. CASE toAgent'[d][j] = m
            BY <2>1, <2>3, <3>2
        <3> QED
            BY <1>0, <3>1, <3>2
    <2> QED
        BY <2>2, <2>3
<1>5. Registered' /\ StoppedStaysStopped'
    BY DEF Order, Registered, StoppedStaysStopped
<1> QED
    BY <1>1, <1>2, <1>3, <1>4, <1>5 DEF Order

(* The order is kept by what a request does.                                        *)
LEMMA HandlerOrder ==
    ASSUME TailsTypeOK, Given, Order, NEW s \in Stream, HandlerStep(s)
    PROVE  Order'
<1> USE DEF agentVars, readerVars, hubVars
<1>1. CASE Open(s)
    <2>1. /\ UNCHANGED <<toAgent, held, stopped, running, tail>>
          /\ reader[s] = "idle" /\ at' = [at EXCEPT ![s] = hub] /\ reader' = [reader EXCEPT ![s] = "opened"]
        BY <1>1 DEF Open
    <2>2. Routed'
        BY <2>1 DEF Order, Routed, AskedFirst, TailsTypeOK, Instruction
    <2>3. AskedFirst'
        BY <2>1 DEF Order, AskedFirst, TailsTypeOK
    <2> QED
        BY <2>1, <2>2, <2>3 DEF Order, Registered, StopLast, NotAskedAgain, StoppedStaysStopped
<1>2. CASE TailContainer(s)
    <2>1. /\ at[s] \in Conn /\ away[s] \in BOOLEAN
          /\ Writes(at[s], toAgent, toAgent', TailLogs(s))
                \/ WriteFails(at[s], toAgent, toAgent', TailLogs(s), away[s])
        BY <1>2 DEF TailContainer, Given, TailsTypeOK
    <2>2. toAgent' \in {toAgent, [toAgent EXCEPT ![at[s]] = Append(@, TailLogs(s))]}
        BY <2>1, Messages, InstructionsAfter
    <2>3. /\ reader'[s] \notin {"idle", "opened"} /\ reader[s] = "opened"
          /\ \A r \in Stream \ {s} : reader'[r] = reader[r]
        BY <1>2 DEF TailContainer, TailsTypeOK
    <2>4. UNCHANGED <<at, held, stopped, running, tail>>
        BY <1>2 DEF TailContainer
    <2> QED
        BY <2>1, <2>2, <2>3, <2>4, Messages, SentStep
<1>3. CASE StopTail(s)
    <2>1. /\ at[s] \in Conn /\ away[s] \in BOOLEAN
          /\ Writes(at[s], toAgent, toAgent', StopTailMsg(s))
                \/ WriteFails(at[s], toAgent, toAgent', StopTailMsg(s), away[s])
        BY <1>3 DEF StopTail, Given, TailsTypeOK
    <2>2. toAgent' \in {toAgent, [toAgent EXCEPT ![at[s]] = Append(@, StopTailMsg(s))]}
        BY <2>1, Messages, InstructionsAfter
    <2>3. /\ reader'[s] \notin {"idle", "opened"}
          /\ \A r \in Stream \ {s} : reader'[r] = reader[r]
        BY <1>3 DEF StopTail, TailsTypeOK
    <2>4. UNCHANGED <<at, held, stopped, running, tail>>
        BY <1>3 DEF StopTail
    <2>5. StopTailMsg(s).type # "tail-logs"
        BY Messages
    <2> QED
        BY <2>1, <2>2, <2>3, <2>4, <2>5, Messages, SentStep
<1>4. CASE GoAway(s) \/ TakeChunk(s) \/ NoticeAway(s)
    <2>1. UNCHANGED <<at, toAgent, held, stopped, running, tail>>
        BY <1>4 DEF GoAway, TakeChunk, NoticeAway
    <2>2. \A r \in Stream : reader'[r] \in {"idle", "opened"} => reader[r] \in {"idle", "opened"}
        BY <1>4 DEF GoAway, TakeChunk, NoticeAway, TailsTypeOK
    <2> QED
        BY <2>1, <2>2, QuietStep
<1> QED
    BY <1>1, <1>2, <1>3, <1>4 DEF HandlerStep

(* The order is kept by a step of the agent's sessions.                             *)
LEMMA SessionOrder ==
    ASSUME TailsTypeOK, Order, NEW c \in Conn, SessionStep(c)
    PROVE  Order'
<1> USE DEF readerVars, hubVars
<1>1. CASE Connect(c)
    BY <1>1, QuietStep DEF Connect
<1>2. CASE StopAll(c)
    <2>1. \A s \in Stream : tail'[s] # "streaming"
        BY <1>2 DEF StopAll, Order, Registered
    <2> QED
        BY <1>2, <2>1, QuietStep DEF StopAll
<1>6. CASE ClearConn(c)
    BY <1>6, QuietStep DEF ClearConn
<1>7. CASE CloseNow(c)
    <2>1. /\ UNCHANGED <<reader, at, held, stopped, running, tail>>
          /\ toAgent' = [toAgent EXCEPT ![c] = <<>>]
        BY <1>7 DEF CloseNow
    <2>2. \A d \in Conn : toAgent'[d] = toAgent[d] \/ toAgent'[d] = <<>>
        BY <2>1 DEF TailsTypeOK
    <2>3. \A d \in Conn : \A i \in 1 .. Len(toAgent'[d]) : toAgent'[d] = toAgent[d]
        BY <2>2
    <2>4. Routed' /\ AskedFirst'
        BY <2>1, <2>3 DEF Order, Routed, AskedFirst
    <2>5. StopLast' /\ NotAskedAgain'
        BY <2>1, <2>3 DEF Order, StopLast, NotAskedAgain
    <2> QED
        BY <2>1, <2>4, <2>5 DEF Order, Registered, StoppedStaysStopped
<1>3. CASE Receive(c)
    <2>1. /\ held' = [held EXCEPT ![c] = Head(toAgent[c])] /\ toAgent' = [toAgent EXCEPT ![c] = Tail(@)]
          /\ toAgent[c] # <<>> /\ UNCHANGED <<reader, at, stopped, running, tail>>
        BY <1>3 DEF Receive
    <2>2. /\ Len(toAgent[c]) \in Nat /\ 1 \in 1 .. Len(toAgent[c]) /\ held'[c] = toAgent[c][1]
          /\ \A i \in 1 .. Len(toAgent'[c]) : i + 1 \in 1 .. Len(toAgent[c]) /\ toAgent'[c][i] = toAgent[c][i + 1]
        BY <2>1 DEF TailsTypeOK
    <2>3. \A d \in Conn \ {c} : held'[d] = held[d] /\ toAgent'[d] = toAgent[d]
        BY <2>1 DEF TailsTypeOK
    <2>4. Routed'
        BY <2>1, <2>2, <2>3 DEF Order, Routed
    <2>5. AskedFirst'
        BY <2>1, <2>2, <2>3 DEF Order, AskedFirst
    <2>6. NotAskedAgain'
        BY <2>1, <2>2, <2>3 DEF Order, NotAskedAgain
    <2>7. StopLast'
        <3> SUFFICES ASSUME NEW d \in Conn
                     PROVE  /\ \A i, j \in 1 .. Len(toAgent'[d]) :
                                i < j /\ toAgent'[d][i].type = "stop-tail" /\ toAgent'[d][j].type = "tail-logs"
                                    => toAgent'[d][i].stream # toAgent'[d][j].stream
                            /\ \A j \in 1 .. Len(toAgent'[d]) :
                                held'[d] # None /\ held'[d].type = "stop-tail" /\ toAgent'[d][j].type = "tail-logs"
                                    => held'[d].stream # toAgent'[d][j].stream
            BY DEF StopLast
        <3>1. CASE d # c
            BY <2>3, <3>1 DEF Order, StopLast
        <3>2. CASE d = c
            <4>1. ASSUME NEW i \in 1 .. Len(toAgent'[c]), NEW j \in 1 .. Len(toAgent'[c]), i < j,
                         toAgent'[c][i].type = "stop-tail", toAgent'[c][j].type = "tail-logs"
                  PROVE  toAgent'[c][i].stream # toAgent'[c][j].stream
                <5> DEFINE k == i + 1
                           l == j + 1
                <5>1. /\ k \in 1 .. Len(toAgent[c]) /\ l \in 1 .. Len(toAgent[c]) /\ k < l
                      /\ toAgent'[c][i] = toAgent[c][k] /\ toAgent'[c][j] = toAgent[c][l]
                    <6>1. k \in 1 .. Len(toAgent[c]) /\ toAgent'[c][i] = toAgent[c][k]
                        BY <2>2
                    <6>2. l \in 1 .. Len(toAgent[c]) /\ toAgent'[c][j] = toAgent[c][l]
                        BY <2>2
                    <6> QED
                        BY <4>1, <6>1, <6>2
                <5> HIDE DEF k, l
                <5> QED
                    BY <4>1, <5>1 DEF Order, StopLast
            <4>2. ASSUME NEW j \in 1 .. Len(toAgent'[c]),
                         held'[c].type = "stop-tail", toAgent'[c][j].type = "tail-logs"
                  PROVE  held'[c].stream # toAgent'[c][j].stream
                <5>1. 1 < j + 1
                    OBVIOUS
                <5> QED
                    BY <2>2, <4>2, <5>1 DEF Order, StopLast
            <4> QED
                BY <3>2, <4>1, <4>2
        <3> QED
            BY <3>1, <3>2
    <2> QED
        BY <2>1, <2>4, <2>5, <2>6, <2>7 DEF Order, Registered, StoppedStaysStopped
<1>4. CASE StartTail(c)
    <2> DEFINE s == held[c].stream
    <2>1. /\ held[c] # None /\ held[c].type = "tail-logs" /\ s \in Stream
          /\ running' = running \cup {s} /\ tail' = [tail EXCEPT ![s] = "streaming"]
          /\ held' = [held EXCEPT ![c] = None] /\ UNCHANGED <<reader, at, toAgent, stopped>>
        BY <1>4 DEF StartTail, TailsTypeOK, Instruction
    <2>2. s \notin stopped
        BY <2>1 DEF Order, NotAskedAgain
    <2>3. \A d \in Conn : held'[d] # None => held'[d] = held[d]
        BY <2>1 DEF TailsTypeOK
    <2>4. Registered' /\ StoppedStaysStopped'
        BY <2>1, <2>2 DEF Order, Registered, StoppedStaysStopped, TailsTypeOK
    <2>5. Routed' /\ AskedFirst' /\ NotAskedAgain'
        BY <2>1, <2>3 DEF Order, Routed, AskedFirst, NotAskedAgain
    <2>6. StopLast'
        BY <2>1, <2>3 DEF Order, StopLast
    <2> QED
        BY <2>4, <2>5, <2>6 DEF Order
<1>5. CASE Stop(c)
    <2> DEFINE s == held[c].stream
    <2>1. /\ held[c] # None /\ held[c].type = "stop-tail" /\ s \in Stream
          /\ running' = running \ {s} /\ stopped' = stopped \cup {s}
          /\ tail' = [tail EXCEPT ![s] = IF s \in running /\ @ = "streaming" THEN "cancelled" ELSE @]
          /\ held' = [held EXCEPT ![c] = None] /\ UNCHANGED <<reader, at, toAgent>>
        BY <1>5 DEF Stop, TailsTypeOK, Instruction
    <2>2. tail'[s] # "streaming"
        BY <2>1 DEF Order, Registered, TailsTypeOK
    <2>3. \A d \in Conn : held'[d] # None => d # c /\ held'[d] = held[d]
        BY <2>1 DEF TailsTypeOK
    <2>4. at[s] = c
        BY <2>1 DEF Order, Routed
    <2>5. Registered' /\ StoppedStaysStopped'
        BY <2>1, <2>2 DEF Order, Registered, StoppedStaysStopped, TailsTypeOK
    <2>6. Routed'
        BY <2>1, <2>3 DEF Order, Routed
    <2>7. AskedFirst'
        <3>1. reader[s] \notin {"idle", "opened"}
            BY <2>1 DEF Order, AskedFirst
        <3> QED
            BY <2>1, <2>3, <3>1 DEF Order, AskedFirst
    <2>8. StopLast'
        BY <2>1, <2>3 DEF Order, StopLast
    <2>9. NotAskedAgain'
        <3>1. \A d \in Conn : held'[d] # None => held'[d].stream # s
            BY <2>3, <2>4 DEF Order, Routed
        <3>2. \A d \in Conn : \A j \in 1 .. Len(toAgent[d]) :
                toAgent[d][j].type = "tail-logs" => toAgent[d][j].stream # s
            BY <2>1, <2>4 DEF Order, Routed, StopLast
        <3> QED
            BY <2>1, <2>3, <3>1, <3>2 DEF Order, NotAskedAgain
    <2> QED
        BY <2>5, <2>6, <2>7, <2>8, <2>9 DEF Order
<1> QED
    BY <1>1, <1>2, <1>3, <1>4, <1>5, <1>6, <1>7 DEF SessionStep

------------------------------------------------------------------------------------
LEMMA TailsInitial == TailsInit => TailsTypeOK /\ Given /\ Order
<1> SUFFICES ASSUME TailsInit PROVE TailsTypeOK /\ Given /\ Order
    OBVIOUS
<1>1. TailsTypeOK
    BY TailsAssumption DEF TailsInit, TailsTypeOK, ReaderState, SessionState, TailState
<1>2. Order
    BY DEF TailsInit, Order, Registered, Routed, AskedFirst, StopLast, NotAskedAgain, StoppedStaysStopped
<1> QED
    BY <1>1, <1>2 DEF TailsInit, Given

LEMMA TailsStep ==
    TailsTypeOK /\ Given /\ Order /\ [TailsNext]_vars => (TailsTypeOK /\ Given /\ Order)'
<1> SUFFICES ASSUME TailsTypeOK, Given, Order, [TailsNext]_vars PROVE (TailsTypeOK /\ Given /\ Order)'
    OBVIOUS
<1>1. ASSUME NEW s \in Stream, HandlerStep(s) PROVE (TailsTypeOK /\ Given /\ Order)'
    BY <1>1, HandlerTypes, HandlerOrder
<1>2. ASSUME NEW c \in Conn, ServeStep(c) PROVE (TailsTypeOK /\ Given /\ Order)'
    <2>1. UNCHANGED <<readerVars, toAgent, agentVars>>
        BY <1>2 DEF ServeStep, LookUp, Deliver, DeliverClosed, ServeEnds, Remove
    <2>2. Order'
        BY <2>1, QuietStep DEF readerVars, agentVars
    <2> QED
        BY <1>2, <2>1, <2>2, ServeTypes DEF Given, readerVars
<1>3. ASSUME NEW c \in Conn, SessionStep(c) PROVE (TailsTypeOK /\ Given /\ Order)'
    <2>1. UNCHANGED readerVars
        BY <1>3 DEF SessionStep, Connect, StopAll, ClearConn, CloseNow, Receive, StartTail, Stop
    <2> QED
        BY <1>3, <2>1, SessionTypes, SessionOrder DEF Given, readerVars
<1>4. ASSUME NEW s \in Stream, TailStep(s) PROVE (TailsTypeOK /\ Given /\ Order)'
    <2>1. UNCHANGED <<readerVars, toAgent, held, stopped>>
        BY <1>4 DEF TailStep, ForwardLines, LogEnds, SendDone
    <2>2. \A r \in Stream : tail'[r] = "streaming" => tail[r] = "streaming" /\ (r \in running => r \in running')
        BY <1>4 DEF TailStep, ForwardLines, LogEnds, SendDone, TailsTypeOK
    <2>3. Order'
        BY <2>1, <2>2, QuietStep DEF readerVars
    <2> QED
        BY <1>4, <2>1, <2>3, TailTypes DEF Given, readerVars
<1>5. ASSUME NEW c \in Conn, Lose(c) PROVE (TailsTypeOK /\ Given /\ Order)'
    <2>1. TailsTypeOK'
        BY <1>5 DEF Lose, TailsTypeOK, readerVars, agentVars
    <2>2. Order'
        BY <1>5, QuietStep DEF Lose, readerVars, agentVars
    <2> QED
        BY <1>5, <2>1, <2>2 DEF Lose, Given, readerVars
<1>6. CASE UNCHANGED vars
    <2>1. TailsTypeOK'
        BY <1>6 DEF vars, TailsTypeOK
    <2>2. Order'
        BY <1>6, QuietStep DEF vars
    <2> QED
        BY <1>6, <2>1, <2>2 DEF vars, Given
<1> QED
    BY <1>1, <1>2, <1>3, <1>4, <1>5, <1>6 DEF TailsNext

------------------------------------------------------------------------------------
(* No connection opens but by Connect, which takes one that had yet to be made.      *)
LEMMA SocketsClose ==
    ASSUME TailsTypeOK, Given, TailsNext, \A c \in Conn : ~Connect(c), NEW d \in Conn
    PROVE  /\ socket'[d] = "open" => socket[d] = "open"
           /\ socket'[d] = "none" => socket[d] = "none"
           /\ socket[d] = "closed" => socket'[d] = "closed"
<1> USE DEF readerVars, hubVars, agentVars
<1> DEFINE Closes(c) == socket' \in {socket, [socket EXCEPT ![c] = "closed"]}
<1>1. ASSUME NEW c \in Conn, Closes(c)
      PROVE  /\ socket'[d] = "open" => socket[d] = "open"
             /\ socket'[d] = "none" => socket[d] = "none"
             /\ socket[d] = "closed" => socket'[d] = "closed"
    BY <1>1 DEF TailsTypeOK
<1>2. ASSUME NEW s \in Stream, HandlerStep(s) PROVE \E c \in Conn : Closes(c)
    <2>1. CASE TailContainer(s) \/ StopTail(s)
        <3>1. at[s] \in Conn
            BY <2>1 DEF TailContainer, StopTail, Given
        <3>2. Closes(at[s])
            BY <2>1 DEF TailContainer, StopTail, Writes, WriteFails
        <3> QED
            BY <3>1, <3>2
    <2>2. CASE Open(s) \/ GoAway(s) \/ TakeChunk(s) \/ NoticeAway(s)
        BY <2>2 DEF Open, GoAway, TakeChunk, NoticeAway
    <2> QED
        BY <1>2, <2>1, <2>2 DEF HandlerStep
<1>3. ASSUME NEW c \in Conn, ServeStep(c) \/ SessionStep(c) \/ Lose(c) PROVE Closes(c)
    <2>1. CASE ServeStep(c)
        BY <2>1 DEF ServeStep, LookUp, Deliver, DeliverClosed, ServeEnds, Remove
    <2>2. CASE SessionStep(c)
        BY <2>2 DEF SessionStep, StopAll, ClearConn, CloseNow, Receive, StartTail, Stop
    <2> QED
        BY <1>3, <2>1, <2>2 DEF Lose
<1>4. ASSUME NEW s \in Stream, TailStep(s) PROVE UNCHANGED socket \/ (conn \in Conn /\ Closes(conn))
    <2>1. CASE LogEnds(s)
        BY <2>1 DEF LogEnds
    <2>2. CASE ForwardLines(s)
        BY <2>2 DEF ForwardLines, SendLogChunk, Writes, WriteFails, TailsTypeOK
    <2>3. CASE SendDone(s)
        BY <2>3 DEF SendDone, SendLogChunk, Writes, WriteFails, TailsTypeOK
    <2> QED
        BY <1>4, <2>1, <2>2, <2>3 DEF TailStep
<1> HIDE DEF Closes
<1> QED
    BY <1>1, <1>2, <1>3, <1>4 DEF TailsNext

(* What a step does to the connections as either side knows them.                    *)
LEMMA EndsKnown ==
    ASSUME TailsTypeOK, TailsNext, \A c \in Conn : ~Connect(c)
    PROVE  /\ hub' = hub \/ hub' = None
           /\ conn' = conn \/ (conn' = None /\ UNCHANGED socket /\ \E c \in Conn : session[c] = "stopping")
           /\ \A s \in Stream : at'[s] = at[s] \/ (at'[s] = hub /\ hub # None)
<1> USE DEF readerVars, hubVars, agentVars
<1>1. ASSUME NEW s \in Stream, HandlerStep(s)
      PROVE  UNCHANGED <<hub, conn>> /\ \A r \in Stream : at'[r] = at[r] \/ (at'[r] = hub /\ hub # None)
    <2>1. UNCHANGED <<hub, conn>> /\ (UNCHANGED at \/ Open(s))
        BY <1>1
        DEF HandlerStep, Open, TailContainer, StopTail, GoAway, TakeChunk, NoticeAway
    <2>2. CASE Open(s)
        BY <2>1, <2>2 DEF Open, TailsTypeOK
    <2> QED
        BY <2>1, <2>2
<1>2. ASSUME NEW s \in Stream, TailStep(s) PROVE UNCHANGED <<hub, conn, at>>
    BY <1>2 DEF TailStep, ForwardLines, LogEnds, SendDone
<1>3. ASSUME NEW c \in Conn, ServeStep(c) PROVE UNCHANGED <<conn, at>> /\ (hub' = hub \/ hub' = None)
    BY <1>3 DEF ServeStep, LookUp, Deliver, DeliverClosed, ServeEnds, Remove
<1>4. ASSUME NEW c \in Conn, SessionStep(c)
      PROVE  /\ UNCHANGED <<hub, at>>
             /\ conn' = conn \/ (conn' = None /\ UNCHANGED socket /\ session[c] = "stopping")
    BY <1>4 DEF SessionStep, StopAll, ClearConn, CloseNow, Receive, StartTail, Stop
<1>5. ASSUME NEW c \in Conn, Lose(c) PROVE UNCHANGED <<hub, conn, at>>
    BY <1>5 DEF Lose
<1> QED
    BY <1>1, <1>2, <1>3, <1>4, <1>5 DEF TailsNext

(* A session begins with Connect, and ends one step after another.                   *)
LEMMA SessionsKept ==
    ASSUME TailsTypeOK, Given, Sessions, TailsNext
    PROVE  Sessions'
<1> USE DEF readerVars, hubVars, agentVars
<1>0. None \notin Conn
    BY TailsAssumption DEF Conn
<1>1. ASSUME NEW c \in Conn, Connect(c) PROVE Sessions'
    <2>1. /\ conn = None /\ socket[c] = "none" /\ conn' = c
          /\ session' = [session EXCEPT ![c] = "running"]
          /\ \A b \in Conn : socket'[b] = IF b = c THEN "open" ELSE IF b = hub THEN "closed" ELSE socket[b]
        BY <1>1 DEF Connect
    <2>2. \A b \in Conn : session[b] \notin {"running", "stopping"}
        BY <1>0, <2>1 DEF Sessions, SessionIsCurrent
    <2>3. \A b \in Conn : session'[b] = IF b = c THEN "running" ELSE session[b]
        BY <2>1 DEF TailsTypeOK
    <2> QED
        BY <2>1, <2>2, <2>3 DEF Sessions, EndedIsClosed, SessionIsCurrent
<1>2. ASSUME \A c \in Conn : ~Connect(c), UNCHANGED <<session, conn>> PROVE Sessions'
    BY <1>2, SocketsClose DEF Sessions, EndedIsClosed, SessionIsCurrent
<1>3. ASSUME NEW c \in Conn, StopAll(c) \/ ClearConn(c) \/ CloseNow(c) PROVE Sessions'
    <2>1. UNCHANGED socket /\ socket[c] = "closed"
        BY <1>3 DEF StopAll, ClearConn, CloseNow, Sessions, EndedIsClosed
    <2>2. \A b \in Conn \ {c} : session'[b] = session[b]
        BY <1>3 DEF StopAll, ClearConn, CloseNow, TailsTypeOK
    <2>3. CASE StopAll(c) \/ CloseNow(c)
        <3>1. UNCHANGED conn /\ (session'[c] = "stopping" => session[c] = "running")
              /\ session'[c] # "running"
            BY <2>3 DEF StopAll, CloseNow, TailsTypeOK
        <3> QED
            BY <2>1, <2>2, <3>1 DEF Sessions, EndedIsClosed, SessionIsCurrent
    <2>4. CASE ClearConn(c)
        <3>1. conn = c /\ session'[c] = "cleared"
            BY <2>4 DEF ClearConn, Sessions, SessionIsCurrent, TailsTypeOK
        <3> QED
            BY <2>1, <2>2, <3>1 DEF Sessions, EndedIsClosed, SessionIsCurrent
    <2> QED
        BY <1>3, <2>3, <2>4
<1>4. ASSUME NEW s \in Stream, HandlerStep(s) \/ TailStep(s) PROVE UNCHANGED <<session, conn>>
    BY <1>4
    DEF HandlerStep, Open, TailContainer, StopTail, GoAway, TakeChunk, NoticeAway, TailStep,
        ForwardLines, LogEnds, SendDone
<1>5. ASSUME NEW c \in Conn, ServeStep(c) \/ Lose(c) \/ Receive(c) \/ StartTail(c) \/ Stop(c)
      PROVE  UNCHANGED <<session, conn>>
    BY <1>5
    DEF ServeStep, LookUp, Deliver, DeliverClosed, ServeEnds, Remove, Lose, Receive, StartTail, Stop
<1> QED
    BY <1>1, <1>2, <1>3, <1>4, <1>5 DEF TailsNext, SessionStep

LEMMA ConnectionsKept ==
    ASSUME TailsTypeOK, TailsTypeOK', Given, OpenIsCurrent, Sessions, GivenMade, TailsNext
    PROVE  OpenIsCurrent' /\ GivenMade'
<1>0. None \notin Conn
    BY TailsAssumption DEF Conn
<1>1. ASSUME NEW c \in Conn, Connect(c) PROVE OpenIsCurrent' /\ GivenMade'
    <2>1. /\ conn = None /\ socket[c] = "none" /\ hub' = c /\ conn' = c /\ UNCHANGED at
          /\ \A b \in Conn : socket'[b] = IF b = c THEN "open" ELSE IF b = hub THEN "closed" ELSE socket[b]
        BY <1>1 DEF Connect, readerVars
    <2>2. \A b \in Conn : socket'[b] = "open" => b = c
        BY <1>0, <2>1 DEF OpenIsCurrent
    <2>3. \A b \in Conn : socket'[b] = "none" => socket[b] = "none"
        BY <2>1
    <2>4. \A s \in Stream : at[s] # None => at[s] \in Conn
        BY DEF TailsTypeOK
    <2> QED
        BY <2>1, <2>2, <2>3, <2>4 DEF OpenIsCurrent, GivenMade
<1>2. CASE \A c \in Conn : ~Connect(c)
    <2>1. OpenIsCurrent'
        <3>1. CASE conn' = conn
            BY <1>2, <3>1, SocketsClose DEF OpenIsCurrent
        <3>2. CASE UNCHANGED socket /\ \E c \in Conn : session[c] = "stopping"
            BY <3>2 DEF OpenIsCurrent, Sessions, EndedIsClosed, SessionIsCurrent
        <3> QED
            BY <1>2, <3>1, <3>2, EndsKnown
    <2>2. hub # None => hub \in Conn
        BY DEF TailsTypeOK
    <2>3. \A s \in Stream : at[s] # None => at[s] \in Conn
        BY DEF TailsTypeOK
    <2>4. hub' # None => socket'[hub'] # "none"
        BY <1>2, <2>2, SocketsClose, EndsKnown DEF GivenMade
    <2>5. ASSUME NEW s \in Stream, at'[s] # None PROVE socket'[at'[s]] # "none"
        <3>1. CASE at'[s] = at[s]
            BY <1>2, <2>3, <2>5, <3>1, SocketsClose DEF GivenMade
        <3>2. CASE at'[s] = hub
            BY <1>2, <2>2, <2>5, <3>2, SocketsClose DEF GivenMade
        <3> QED
            BY <1>2, <3>1, <3>2, EndsKnown
    <2> QED
        BY <2>1, <2>4, <2>5 DEF GivenMade
<1> QED
    BY <1>1, <1>2

(* A request's stream is registered as it begins and released as it ends.            *)
LEMMA WatchersKept ==
    ASSUME TailsTypeOK, WatchersAreRequests, NothingFollowed, Order, [TailsNext]_vars
    PROVE  WatchersAreRequests' /\ NothingFollowed'
<1> USE DEF readerVars, hubVars, agentVars
<1>0. /\ reader \in [Stream -> ReaderState] /\ tail \in [Stream -> TailState]
      /\ watchers \subseteq Stream
    BY DEF TailsTypeOK
<1>1. ASSUME UNCHANGED <<reader, watchers>>,
             \A s \in Stream : tail[s] = "none" => tail'[s] = "none" \/ reader[s] \notin {"idle", "opened"}
      PROVE  WatchersAreRequests' /\ NothingFollowed'
    BY <1>1 DEF WatchersAreRequests, NothingFollowed
<1>2. ASSUME NEW s \in Stream, HandlerStep(s) PROVE WatchersAreRequests' /\ NothingFollowed'
    <2>1. /\ UNCHANGED tail
          /\ \A r \in Stream \ {s} : reader'[r] = reader[r] /\ (r \in watchers' <=> r \in watchers)
        BY <1>0, <1>2
        DEF HandlerStep, Open, TailContainer, StopTail, GoAway, TakeChunk, NoticeAway, Close
    <2>2. s \in watchers' <=> reader'[s] \in {"opened", "reading", "leaving"}
        <3>1. CASE Open(s) \/ TailContainer(s) \/ StopTail(s)
            BY <1>0, <3>1 DEF Open, TailContainer, StopTail, Close, WatchersAreRequests
        <3>2. CASE GoAway(s) \/ TakeChunk(s) \/ NoticeAway(s)
            BY <1>0, <3>2 DEF GoAway, TakeChunk, NoticeAway, WatchersAreRequests
        <3> QED
            BY <1>2, <3>1, <3>2 DEF HandlerStep
    <2>3. reader'[s] \in {"idle", "opened"} => reader[s] \in {"idle", "opened"}
        BY <1>0, <1>2
        DEF HandlerStep, Open, TailContainer, StopTail, GoAway, TakeChunk, NoticeAway
    <2> QED
        BY <2>1, <2>2, <2>3 DEF WatchersAreRequests, NothingFollowed
<1>3. ASSUME NEW s \in Stream, TailStep(s) PROVE WatchersAreRequests' /\ NothingFollowed'
    <2>1. UNCHANGED <<reader, watchers>>
        BY <1>3 DEF TailStep, ForwardLines, LogEnds, SendDone
    <2>2. \A r \in Stream : tail[r] = "none" => tail'[r] = "none"
        BY <1>0, <1>3 DEF TailStep, ForwardLines, LogEnds, SendDone
    <2> QED
        BY <1>1, <2>1, <2>2
<1>4. ASSUME NEW c \in Conn, SessionStep(c) PROVE WatchersAreRequests' /\ NothingFollowed'
    <2>1. UNCHANGED <<reader, watchers>>
        BY <1>4 DEF SessionStep, Connect, StopAll, ClearConn, CloseNow, Receive, StartTail, Stop
    <2>2. ASSUME NEW r \in Stream, tail[r] = "none"
          PROVE  tail'[r] = "none" \/ reader[r] \notin {"idle", "opened"}
        <3>1. CASE Connect(c) \/ Receive(c) \/ StopAll(c) \/ ClearConn(c) \/ CloseNow(c)
            BY <1>0, <2>2, <3>1 DEF Connect, Receive, StopAll, ClearConn, CloseNow
        <3>2. CASE Stop(c)
            BY <1>0, <2>2, <3>2 DEF Stop
        <3>3. CASE StartTail(c)
            <4>1. CASE held[c].stream = r
                BY <3>3, <4>1 DEF StartTail, Order, AskedFirst
            <4>2. CASE held[c].stream # r
                BY <1>0, <2>2, <3>3, <4>2 DEF StartTail
            <4> QED
                BY <4>1, <4>2
        <3> QED
            BY <1>4, <3>1, <3>2, <3>3 DEF SessionStep
    <2> QED
        BY <1>1, <2>1, <2>2
<1>5. ASSUME NEW c \in Conn, ServeStep(c) \/ Lose(c) PROVE WatchersAreRequests' /\ NothingFollowed'
    <2>1. UNCHANGED <<reader, watchers, tail>>
        BY <1>5 DEF ServeStep, LookUp, Deliver, DeliverClosed, ServeEnds, Remove, Lose
    <2> QED
        BY <1>1, <2>1
<1>6. CASE UNCHANGED vars
    BY <1>1, <1>6 DEF vars
<1> QED
    BY <1>2, <1>3, <1>4, <1>5, <1>6 DEF TailsNext

(* The inductive invariant holds: types, tails registered, and the instructions     *)
(* about a stream on one connection, in the order its request sent them.            *)
THEOREM TailsInvariant == TailsSpec => [](TailsTypeOK /\ Given /\ Order)
BY TailsInitial, TailsStep, PTL DEF TailsSpec

(* The state keeps its type and no channel holds more than it can (logs.go:33).     *)
THEOREM TailsTypeCorrect == TailsSpec => []TailsTypeOK
<1>1. TailsTypeOK /\ Given /\ Order => TailsTypeOK
    OBVIOUS
<1> QED
    BY <1>1, TailsInvariant, PTL

(* However the goroutines of a request, a connection and a tail interleave, and      *)
(* whichever connections are lost, a stream that was stopped is not followed again. *)
THEOREM StoppedIsStopped == TailsSpec => []StoppedStaysStopped
<1>1. TailsTypeOK /\ Given /\ Order => StoppedStaysStopped
    BY DEF Order
<1> QED
    BY <1>1, TailsInvariant, PTL

(* The end of a session cancels every tail there is at that moment, those started by *)
(* what was left of the session before included (agent.go:367, logs.go:62): none    *)
(* is missing from the list. It says nothing of a tail that starts afterwards.      *)
THEOREM SessionTakesItsTails == TailsSpec => SessionEndsItsTails
<1>1. TailsTypeOK /\ Order /\ [TailsNext]_vars =>
        [\A c \in Conn : session[c] = "running" /\ session'[c] # "running" =>
            \A s \in Stream : tail'[s] # "streaming"]_vars
    <2> SUFFICES ASSUME TailsTypeOK, Order, TailsNext, NEW d \in Conn,
                        session[d] = "running", session'[d] # "running"
                 PROVE  \A s \in Stream : tail'[s] # "streaming"
        OBVIOUS
    <2>1. PICK c \in Conn : StopAll(c) \/ ClearConn(c) \/ CloseNow(c) \/ Connect(c)
        BY DEF TailsNext, HandlerStep, ServeStep, SessionStep, TailStep, Open, TailContainer, GoAway,
               TakeChunk, NoticeAway, StopTail, LookUp, Deliver, DeliverClosed, ServeEnds, Remove,
               Receive, StartTail, Stop, ForwardLines, LogEnds, SendDone, Lose, agentVars
    <2>2. StopAll(c)
        BY <2>1 DEF Connect, ClearConn, CloseNow, TailsTypeOK
    <2> QED
        BY <2>2 DEF StopAll, Order, Registered
<1> QED
    BY <1>1, TailsInvariant, PTL DEF TailsSpec, SessionEndsItsTails

------------------------------------------------------------------------------------
(* What was on its way stays there: a message added behind it, the one before it     *)
(* taken, or itself taken one step further.                                          *)
LEMMA WireGrows ==
    ASSUME TailsTypeOK, NEW s \in Stream, at[s] \in Conn, OnTheWire(s), at'[s] = at[s],
           NEW m \in LogChunk, toServer'[at[s]] \in {toServer[at[s]], Append(toServer[at[s]], m)}
    PROVE  OnTheWire(s)'
<1>1. toServer[at[s]] \in Seq(LogChunk)
    BY DEF TailsTypeOK
<1>2. PICK i \in 1 .. Len(toServer[at[s]]) : toServer[at[s]][i] = LastChunk(s)
    BY DEF OnTheWire
<1>3. i \in 1 .. Len(toServer'[at[s]]) /\ toServer'[at[s]][i] = toServer[at[s]][i]
    BY <1>1
<1> QED
    BY <1>2, <1>3 DEF OnTheWire, LastChunk

LEMMA ChunkLookedUp ==
    ASSUME TailsTypeOK, NEW s \in Stream, at[s] \in Conn, OnItsWay(s), at'[s] = at[s],
           s \in watchers, NEW c \in Conn, LookUp(c)
    PROVE  OnItsWay(s)'
<1>1. /\ toServer[c] \in Seq(LogChunk) /\ toServer[c] # <<>> /\ found[c] = None /\ UNCHANGED queue
      /\ toServer' = [toServer EXCEPT ![c] = Tail(@)]
      /\ found' = [found EXCEPT ![c] =
                    IF Head(toServer[c]).stream \in watchers THEN Head(toServer[c]) ELSE None]
    BY DEF LookUp, TailsTypeOK
<1>2. CASE InTheChannel(s)
    BY <1>1, <1>2 DEF OnItsWay, InTheChannel
<1>3. CASE c # at[s]
    <2>1. toServer'[at[s]] = toServer[at[s]] /\ found'[at[s]] = found[at[s]]
        BY <1>1, <1>3 DEF TailsTypeOK
    <2> QED
        BY <1>1, <2>1 DEF OnItsWay, OnTheWire, InTheChannel, LastChunk
<1>4. CASE c = at[s] /\ OnTheWire(s)
    <2>1. PICK i \in 1 .. Len(toServer[c]) : toServer[c][i] = LastChunk(s)
        BY <1>4 DEF OnTheWire
    <2>2. toServer'[c] = Tail(toServer[c]) /\ Len(toServer[c]) \in Nat
        BY <1>1 DEF TailsTypeOK
    <2>3. CASE i = 1
        <3>1. Head(toServer[c]) = LastChunk(s) /\ LastChunk(s).stream = s
            BY <1>1, <2>1, <2>3 DEF LastChunk
        <3>2. found'[c] = LastChunk(s)
            BY <1>1, <3>1 DEF TailsTypeOK
        <3> QED
            BY <1>4, <3>2 DEF OnItsWay, LastChunk
    <2>4. CASE i # 1
        <3>1. i - 1 \in 1 .. Len(toServer'[c]) /\ toServer'[c][i - 1] = toServer[c][i]
            <4>1. \A wire \in Seq(LogChunk) : wire # <<>> =>
                    /\ Len(Tail(wire)) = Len(wire) - 1
                    /\ \A k \in 1 .. Len(wire) - 1 : Tail(wire)[k] = wire[k + 1]
                OBVIOUS
            <4> DEFINE k == i - 1
            <4>2. k \in 1 .. Len(toServer[c]) - 1 /\ k + 1 = i
                BY <2>2, <2>4
            <4> HIDE DEF k
            <4>3. k \in 1 .. Len(toServer'[c]) /\ toServer'[c][k] = toServer[c][i]
                BY <1>1, <2>2, <4>1, <4>2
            <4> QED
                BY <4>3 DEF k
        <3> QED
            BY <1>4, <2>1, <3>1 DEF OnItsWay, OnTheWire, LastChunk
    <2> QED
        BY <2>3, <2>4
<1>5. CASE c = at[s] /\ found[at[s]] = LastChunk(s)
    <2>1. LastChunk(s) \in LogChunk /\ None \notin LogChunk
        BY TailsAssumption DEF LastChunk, LogChunk
    <2> QED
        BY <1>1, <1>5, <2>1
<1> QED
    BY <1>2, <1>3, <1>4, <1>5 DEF OnItsWay

LEMMA ChunkDelivered ==
    ASSUME TailsTypeOK, NEW s \in Stream, at[s] \in Conn, OnItsWay(s), at'[s] = at[s],
           ~ missed'[s], NEW c \in Conn, Deliver(c)
    PROVE  OnItsWay(s)'
<1> DEFINE r == found[c].stream
           room == Len(queue[r]) < Buffer
<1>1. /\ UNCHANGED toServer /\ found' = [found EXCEPT ![c] = None]
      /\ queue' = [queue EXCEPT ![r] = IF room THEN Append(@, found[c]) ELSE @]
      /\ missed' = [missed EXCEPT ![r] = @ \/ ~room]
      /\ found[c] \in LogChunk /\ queue[s] \in Seq(LogChunk)
    BY DEF Deliver, TailsTypeOK
<1>2. queue'[s] \in {queue[s], Append(queue[s], found[c])}
    BY <1>1 DEF TailsTypeOK
<1>3. CASE InTheChannel(s)
    <2>1. PICK i \in 1 .. Len(queue[s]) : queue[s][i].done
        BY <1>3 DEF InTheChannel
    <2>2. i \in 1 .. Len(queue'[s]) /\ queue'[s][i] = queue[s][i]
        BY <1>1, <1>2
    <2> QED
        BY <2>1, <2>2 DEF OnItsWay, InTheChannel
<1>4. CASE OnTheWire(s)
    BY <1>1, <1>4 DEF OnItsWay, OnTheWire, LastChunk
<1>5. CASE found[at[s]] = LastChunk(s) /\ c # at[s]
    <2>1. found'[at[s]] = found[at[s]]
        BY <1>1, <1>5 DEF TailsTypeOK
    <2> QED
        BY <1>5, <2>1 DEF OnItsWay, LastChunk
<1>6. CASE found[at[s]] = LastChunk(s) /\ c = at[s]
    <2>1. r = s /\ found[c].done
        BY <1>6 DEF LastChunk
    <2>2. room
        BY <1>1, <2>1 DEF TailsTypeOK
    <2>3. queue'[s] = Append(queue[s], found[c])
        BY <1>1, <2>1, <2>2 DEF TailsTypeOK
    <2>4. Len(queue[s]) + 1 \in 1 .. Len(queue'[s]) /\ queue'[s][Len(queue[s]) + 1] = found[c]
        BY <1>1, <2>3
    <2> QED
        BY <2>1, <2>4 DEF OnItsWay, InTheChannel
<1> QED
    BY <1>3, <1>4, <1>5, <1>6 DEF OnItsWay

LEMMA ChunkWaits ==
    ASSUME TailsTypeOK, NEW s \in Stream, OnItsWay(s), at'[s] = at[s],
           reader'[s] = "reading", NEW r \in Stream, TakeChunk(r)
    PROVE  OnItsWay(s)'
<1> USE DEF readerVars, hubVars, agentVars
<1>1. UNCHANGED <<found, toServer>> /\ queue' = [queue EXCEPT ![r] = Tail(@)]
    BY DEF TakeChunk
<1>2. CASE OnTheWire(s) \/ found[at[s]] = LastChunk(s)
    BY <1>1, <1>2 DEF OnItsWay, OnTheWire, LastChunk
<1>3. CASE InTheChannel(s) /\ r # s
    <2>1. queue'[s] = queue[s]
        BY <1>1, <1>3 DEF TailsTypeOK
    <2> QED
        BY <1>3, <2>1 DEF OnItsWay, InTheChannel
<1>4. CASE InTheChannel(s) /\ r = s
    <2>1. queue[s] \in Seq(LogChunk) /\ queue[s] # <<>> /\ queue'[s] = Tail(queue[s])
        BY <1>1, <1>4 DEF TakeChunk, TailsTypeOK
    <2>2. ~ Head(queue[s]).done
        BY <1>4 DEF TakeChunk, TailsTypeOK
    <2>3. PICK i \in 1 .. Len(queue[s]) : queue[s][i].done
        BY <1>4 DEF InTheChannel
    <2>4. i # 1
        BY <2>1, <2>2, <2>3
    <2>5. i - 1 \in 1 .. Len(queue'[s]) /\ queue'[s][i - 1] = queue[s][i]
        BY <2>1, <2>4
    <2> QED
        BY <2>3, <2>5 DEF OnItsWay, InTheChannel
<1> QED
    BY <1>2, <1>3, <1>4 DEF OnItsWay

(* The tail's last step puts the end on the connection that is open.                 *)
LEMMA LastChunkSent ==
    ASSUME TailsTypeOK, NEW s \in Stream, conn \in Conn, conn = at[s], at'[s] = at[s],
           socket[conn] = "open", SendDone(s)
    PROVE  OnItsWay(s)'
<1>1. None \notin Conn
    BY TailsAssumption DEF Conn
<1>2. toServer' = [toServer EXCEPT ![conn] = Append(@, LastChunk(s))]
    BY <1>1 DEF SendDone, SendLogChunk, Writes, WriteFails, LastChunk
<1>3. toServer[conn] \in Seq(LogChunk) /\ toServer'[conn] = Append(toServer[conn], LastChunk(s))
    BY <1>2 DEF TailsTypeOK
<1>4. /\ Len(toServer[conn]) + 1 \in 1 .. Len(toServer'[conn])
      /\ toServer'[conn][Len(toServer[conn]) + 1] = LastChunk(s)
    BY <1>3
<1> QED
    BY <1>4 DEF OnItsWay, OnTheWire, LastChunk

EndInv == OpenIsCurrent /\ Sessions /\ GivenMade /\ WatchersAreRequests /\ NothingFollowed /\ EndIsOnItsWay

LEMMA EndKept ==
    ASSUME TailsTypeOK, TailsTypeOK', Given, Order, EndInv, TailsNext
    PROVE  EndIsOnItsWay'
<1> USE DEF readerVars, hubVars, agentVars
<1>0. /\ OpenIsCurrent /\ GivenMade /\ WatchersAreRequests /\ NothingFollowed /\ EndIsOnItsWay
      /\ None \notin Conn
      /\ reader \in [Stream -> ReaderState] /\ tail \in [Stream -> TailState]
      /\ missed \in [Stream -> BOOLEAN]
    BY TailsAssumption DEF EndInv, TailsTypeOK, Conn
<1> SUFFICES ASSUME NEW s \in Stream, reader'[s] = "reading", tail'[s] = "ended",
                    socket'[at'[s]] = "open", ~ missed'[s]
             PROVE  OnItsWay(s)'
    BY DEF EndIsOnItsWay
<1>1. reader[s] # "idle" /\ at'[s] = at[s] /\ at[s] \in Conn
    <2>1. UNCHANGED <<reader, at>> \/ \E r \in Stream : HandlerStep(r)
        BY DEF TailsNext, ServeStep, LookUp, Deliver, DeliverClosed, ServeEnds, Remove, SessionStep,
               Connect, StopAll, ClearConn, CloseNow, Receive, StartTail, Stop, TailStep, ForwardLines, LogEnds,
               SendDone, Lose
    <2>2. reader[s] # "idle" /\ at'[s] = at[s]
        <3>1. ASSUME NEW r \in Stream, HandlerStep(r) PROVE reader[s] # "idle" /\ at'[s] = at[s]
            <4>1. CASE Open(r)
                BY <1>0, <4>1 DEF Open, TailsTypeOK
            <4>2. CASE ~ Open(r)
                BY <1>0, <3>1, <4>2
                DEF HandlerStep, TailContainer, StopTail, GoAway, TakeChunk, NoticeAway
            <4> QED
                BY <4>1, <4>2
        <3> QED
            BY <2>1, <3>1
    <2> QED
        BY <2>2 DEF Given
<1>2. socket[at[s]] = "open"
    <2>1. ASSUME NEW c \in Conn, Connect(c) PROVE socket[at[s]] = "open"
        <3>1. at[s] # c
            BY <1>0, <1>1, <2>1 DEF Connect, GivenMade
        <3>2. socket'[at[s]] = IF at[s] = hub THEN "closed" ELSE socket[at[s]]
            BY <1>1, <2>1, <3>1 DEF Connect
        <3> QED
            BY <1>1, <3>2
    <2>2. CASE \A c \in Conn : ~Connect(c)
        BY <1>1, <2>2, SocketsClose
    <2> QED
        BY <2>1, <2>2
<1>3. conn = at[s] /\ conn \in Conn
    BY <1>0, <1>1, <1>2 DEF OpenIsCurrent
<1>4. CASE SendDone(s)
    BY <1>1, <1>2, <1>3, <1>4, LastChunkSent
<1>5. CASE ~ SendDone(s)
    <2>1. tail[s] = "ended"
        <3>1. CASE \E c \in Conn : SessionStep(c)
            BY <1>0, <3>1 DEF SessionStep, Connect, StopAll, ClearConn, CloseNow, Receive, StartTail, Stop
        <3>2. CASE \E r \in Stream : TailStep(r)
            BY <1>0, <1>5, <3>2 DEF TailStep, ForwardLines, LogEnds, SendDone
        <3>3. CASE \E r \in Stream : HandlerStep(r)
            BY <3>3
            DEF HandlerStep, Open, TailContainer, StopTail, GoAway, TakeChunk, NoticeAway
        <3>4. CASE \E c \in Conn : ServeStep(c) \/ Lose(c)
            BY <3>4 DEF ServeStep, LookUp, Deliver, DeliverClosed, ServeEnds, Remove, Lose
        <3> QED
            BY <3>1, <3>2, <3>3, <3>4 DEF TailsNext
    <2>2. reader[s] = "reading"
        <3>1. reader[s] # "opened"
            BY <1>0, <2>1 DEF NothingFollowed
        <3>2. CASE \E r \in Stream : HandlerStep(r)
            BY <1>0, <1>1, <3>1, <3>2
            DEF HandlerStep, Open, TailContainer, StopTail, GoAway, TakeChunk, NoticeAway
        <3>3. CASE UNCHANGED reader
            BY <3>3
        <3> QED
            BY <3>2, <3>3
            DEF TailsNext, ServeStep, LookUp, Deliver, DeliverClosed, ServeEnds, Remove, SessionStep,
                Connect, StopAll, ClearConn, CloseNow, Receive, StartTail, Stop, TailStep, ForwardLines, LogEnds,
                SendDone, Lose
    <2>3. ~ missed[s]
        <3>1. UNCHANGED missed \/ \E c \in Conn : Deliver(c)
            BY DEF TailsNext, HandlerStep, Open, TailContainer, StopTail, GoAway, TakeChunk,
                   NoticeAway, ServeStep, LookUp, DeliverClosed, ServeEnds, Remove, SessionStep,
                   Connect, StopAll, ClearConn, CloseNow, Receive, StartTail, Stop, TailStep, ForwardLines, LogEnds,
                   SendDone, Lose
        <3> QED
            BY <1>0, <3>1 DEF Deliver
    <2>4. OnItsWay(s) /\ s \in watchers
        BY <1>0, <1>2, <2>1, <2>2, <2>3 DEF EndIsOnItsWay, WatchersAreRequests
    <2>5. UNCHANGED <<queue, found, toServer>> => OnItsWay(s)'
        BY <1>1, <2>4 DEF OnItsWay, OnTheWire, InTheChannel, LastChunk
    <2>6. ASSUME NEW r \in Stream, HandlerStep(r) PROVE OnItsWay(s)'
        <3>1. CASE TakeChunk(r)
            BY <1>1, <2>4, <3>1, ChunkWaits
        <3>2. CASE ~ TakeChunk(r)
            BY <2>5, <2>6, <3>2
            DEF HandlerStep, Open, TailContainer, StopTail, GoAway, NoticeAway
        <3> QED
            BY <3>1, <3>2
    <2>7. ASSUME NEW c \in Conn, ServeStep(c) PROVE OnItsWay(s)'
        <3>1. CASE LookUp(c)
            BY <1>1, <2>4, <3>1, ChunkLookedUp
        <3>2. CASE Deliver(c)
            BY <1>1, <2>4, <3>2, ChunkDelivered
        <3>3. CASE DeliverClosed(c) \/ ServeEnds(c)
            <4>1. /\ socket' = [socket EXCEPT ![c] = "closed"] /\ found' = [found EXCEPT ![c] = None]
                  /\ toServer' = [toServer EXCEPT ![c] = <<>>] /\ UNCHANGED queue
                BY <3>3 DEF DeliverClosed, ServeEnds, Remove
            <4>2. c # at[s]
                BY <1>1, <4>1 DEF TailsTypeOK
            <4>3. found'[at[s]] = found[at[s]] /\ toServer'[at[s]] = toServer[at[s]]
                BY <1>1, <4>1, <4>2 DEF TailsTypeOK
            <4> QED
                BY <1>1, <2>4, <4>1, <4>3 DEF OnItsWay, OnTheWire, InTheChannel, LastChunk
        <3> QED
            BY <2>7, <3>1, <3>2, <3>3 DEF ServeStep
    <2>8. ASSUME NEW c \in Conn, SessionStep(c) \/ Lose(c) PROVE OnItsWay(s)'
        BY <2>5, <2>8 DEF SessionStep, Connect, StopAll, ClearConn, CloseNow, Receive, StartTail, Stop, Lose
    <2>9. ASSUME NEW r \in Stream, TailStep(r) PROVE OnItsWay(s)'
        <3>1. CASE LogEnds(r)
            BY <2>5, <3>1 DEF LogEnds
        <3>2. CASE ForwardLines(r) \/ SendDone(r)
            <4>1. UNCHANGED <<queue, found>>
                BY <3>2 DEF ForwardLines, SendDone
            <4>2. CASE OnTheWire(s)
                <5>1. PICK done \in BOOLEAN, cancelled \in BOOLEAN :
                        SendLogChunk([stream |-> r, done |-> done], cancelled)
                    BY <3>2 DEF ForwardLines, SendDone
                <5> DEFINE m == [stream |-> r, done |-> done]
                <5>2. m \in LogChunk
                    BY DEF LogChunk
                <5>3. toServer' \in {toServer, [toServer EXCEPT ![conn] = Append(@, m)]}
                    BY <5>1, ChunkTypes
                <5> HIDE DEF m
                <5>4. toServer'[at[s]] \in {toServer[at[s]], Append(toServer[at[s]], m)}
                    BY <1>3, <5>3 DEF TailsTypeOK
                <5>5. OnTheWire(s)'
                    BY <1>1, <4>2, <5>2, <5>4, WireGrows
                <5> QED
                    BY <5>5 DEF OnItsWay
            <4>3. CASE ~ OnTheWire(s)
                BY <1>1, <2>4, <4>1, <4>3 DEF OnItsWay, InTheChannel, LastChunk
            <4> QED
                BY <4>2, <4>3
        <3> QED
            BY <2>9, <3>1, <3>2 DEF TailStep
    <2> QED
        BY <2>6, <2>7, <2>8, <2>9 DEF TailsNext
<1> QED
    BY <1>4, <1>5

(* For any number of requests and connections: a request's stream is registered for  *)
(* as long as it has yet to end and no longer (logs.go:37), and once a tail has sent *)
(* its last chunk, whoever reads that stream has it ahead of them, on the connection, *)
(* looked up or in the channel, unless the connection was lost or the channel full   *)
(* (logs.go:65). What is left to LastChunkArrives and Released is that goroutines    *)
(* go on.                                                                            *)
THEOREM EndIsAhead == TailsSpec => [](WatchersAreRequests /\ EndIsOnItsWay)
<1>1. TailsInit => EndInv
    <2> SUFFICES ASSUME TailsInit PROVE EndInv
        OBVIOUS
    <2>1. /\ \A c \in Conn : socket[c] = "none" /\ session[c] = "none"
          /\ \A s \in Stream : reader[s] = "idle" /\ tail[s] = "none" /\ at[s] = None
          /\ hub = None /\ watchers = {}
        BY DEF TailsInit
    <2> QED
        BY <2>1
        DEF EndInv, OpenIsCurrent, Sessions, EndedIsClosed, SessionIsCurrent, GivenMade,
            WatchersAreRequests, NothingFollowed, EndIsOnItsWay
<1>2. /\ TailsTypeOK /\ Given /\ Order
      /\ (TailsTypeOK /\ Given /\ Order)'
      /\ EndInv /\ [TailsNext]_vars
      => EndInv'
    <2> SUFFICES ASSUME TailsTypeOK, Given, Order, TailsTypeOK', EndInv, [TailsNext]_vars
                 PROVE  EndInv'
        OBVIOUS
    <2>1. WatchersAreRequests' /\ NothingFollowed'
        BY WatchersKept DEF EndInv
    <2>2. CASE TailsNext
        BY <2>1, <2>2, SessionsKept, ConnectionsKept, EndKept DEF EndInv
    <2>3. CASE UNCHANGED vars
        <3>1. OpenIsCurrent' /\ Sessions' /\ GivenMade'
            BY <2>3
            DEF vars, hubVars, agentVars, EndInv, OpenIsCurrent, Sessions, EndedIsClosed,
                SessionIsCurrent, GivenMade
        <3>2. EndIsOnItsWay'
            BY <2>3
            DEF vars, EndInv, EndIsOnItsWay, OnItsWay, OnTheWire, InTheChannel, LastChunk
        <3> QED
            BY <2>1, <3>1, <3>2 DEF EndInv
    <2> QED
        BY <2>2, <2>3
<1>3. EndInv => WatchersAreRequests /\ EndIsOnItsWay
    BY DEF EndInv
<1> QED
    BY <1>1, <1>2, <1>3, TailsInvariant, PTL DEF TailsSpec

================================================================================
