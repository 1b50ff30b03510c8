----------------------------- MODULE GuestAgent -----------------------------
(***************************************************************************)
(* Commands and shells in a guest: main.rs and pty_session.rs of the guest *)
(* agent, and the calls of the host's session.rs that talk to it.          *)
(*                                                                         *)
(* The agent serves one connection at a time; others wait to be accepted.  *)
(* A request travels as a length and a body, and what waits for a request  *)
(* in the select of a shell is cancelled, with the length it may have      *)
(* read, when another branch is ready.  A response is never cut, and is    *)
(* one message here; so are the four bytes of a length.  Messages are pairs *)
(* of a kind and a number, which tells the pieces of one stream apart.     *)
(***************************************************************************)
EXTENDS Integers, Sequences, SequencesExt

CONSTANTS
    Execs,      \* calls of exec and exec_stream
    Shells,     \* calls of open_shell and open_shell_channels
    Chunks,     \* how many pieces a child writes to each stream at most
    Inputs,     \* how many inputs a shell gets at most
    Buffer,     \* responses that a connection takes before a write waits
    Capacity,   \* capacity of a call's channel
    Terminal,   \* inputs that a shell's terminal takes before a write waits
    NoCall

Streams == {"Stdout", "Stderr", "Output"}
StreamsOf(c) == IF c \in Execs THEN {"Stdout", "Stderr"} ELSE {"Output"}

ASSUME BoundsAssumption ==
    /\ Chunks \in [Streams -> Nat] /\ Inputs \in Nat
    /\ {Buffer, Capacity, Terminal} \subseteq Nat \ {0}
ASSUME CallsAssumption ==
    Execs \cap Shells = {} /\ NoCall \notin Execs \cup Shells

Calls == Execs \cup Shells
Kind(c) == IF c \in Execs THEN "Exec" ELSE "OpenShell"

VARIABLES
    call,       \* the host's side of each call
    rx,         \* the channel from its reading task to its caller
    got,        \* what the caller received, per stream
    up, down,   \* what is under way to the guest and to the host
    backlog,    \* connections the agent has not accepted
    dropped,    \* connections the agent has closed
    agent,      \* what the agent does, for which connection
    child,      \* the process started for each call, and its pipes or terminal
    typed       \* the inputs that reached a shell

hostVars == <<call, rx, got>>
vars == <<call, rx, got, up, down, backlog, dropped, agent, child, typed>>

Length == <<"Length", 0>>
Exit == <<"Exit", 0>>
ShellClosed == <<"ShellClosed", 0>>

\* reading: the reading task runs; listening: the caller keeps the receiver;
\* frame: the request whose length a shell's writing task has written.
NewCall == [pc |-> "idle", reading |-> FALSE,
            listening |-> FALSE, frame |-> "none", sent |-> 0]

Accepting == [mode |-> "accept", conn |-> NoCall, len |-> FALSE,
              msg |-> Exit, next |-> "request"]

Nothing == [s \in Streams |-> 0]

\* unread: pieces it has written that the agent has not read; read: those the
\* agent has; held: inputs it has not read.
NewChild == [state |-> "none", unread |-> Nothing, read |-> Nothing, held |-> 0]

Init ==
    /\ call = [c \in Calls |-> NewCall]
    /\ rx = [c \in Calls |-> <<>>]
    /\ got = [c \in Calls |-> [s \in Streams |-> <<>>]]
    /\ up = [c \in Calls |-> <<>>]
    /\ down = [c \in Calls |-> <<>>]
    /\ backlog = <<>>
    /\ dropped = {}
    /\ agent = Accepting
    /\ child = [c \in Calls |-> NewChild]
    /\ typed = [c \in Calls |-> <<>>]

\* A stream is closed when no task of the host holds a half of it.
HostOpen(c) == call[c].reading \/ call[c].pc \in {"open", "closing"}

\* What has not been read is lost when a stream is closed.
Leave(c, rest) == down' = [down EXCEPT ![c] = IF HostOpen(c)' THEN rest ELSE <<>>]

-----------------------------------------------------------------------------
(* The host: exec and exec_stream, open_shell and open_shell_channels *)

\* connect_to_guest, write_request and the tasks that are spawned.  Nobody
\* reads the request before the connection is accepted.
Connect(c) ==
    /\ call[c].pc = "idle"
    /\ call' = [call EXCEPT ![c] =
                   [NewCall EXCEPT !.reading = TRUE, !.listening = TRUE,
                                   !.pc = IF c \in Execs THEN "waiting" ELSE "open"]]
    /\ up' = [up EXCEPT ![c] = <<Length, <<Kind(c), 0>>>>]
    /\ backlog' = Append(backlog, c)
    /\ UNCHANGED <<rx, got, down, dropped, agent, child, typed>>

\* The caller is cancelled while it writes the request.
ConnectCancelled(c) ==
    /\ call[c].pc = "idle"
    /\ call' = [call EXCEPT ![c].pc = "over"]
    /\ \E part \in {<<>>, <<Length>>} : up' = [up EXCEPT ![c] = part]
    /\ backlog' = Append(backlog, c)
    /\ UNCHANGED <<rx, got, down, dropped, agent, child, typed>>

\* The reading task passes a response on, and ends after the last one or when
\* nobody listens.  A full channel makes it wait.
PassOn(c) ==
    /\ call[c].reading /\ down[c] # <<>>
    /\ LET msg == Head(down[c])
           last == msg \in {Exit, ShellClosed}
       IN  /\ call[c].listening /\ msg # ShellClosed => Len(rx[c]) < Capacity
           /\ rx' = IF call[c].listening /\ msg # ShellClosed
                    THEN [rx EXCEPT ![c] = Append(@, msg)] ELSE rx
           /\ call' = [call EXCEPT ![c].reading = call[c].listening /\ ~last]
    /\ Leave(c, Tail(down[c]))
    /\ UNCHANGED <<got, up, backlog, dropped, agent, child, typed>>

\* The connection ended: so does the reading task.
ReadingEnds(c) ==
    /\ call[c].reading /\ down[c] = <<>> /\ c \in dropped
    /\ call' = [call EXCEPT ![c].reading = FALSE]
    /\ UNCHANGED <<rx, got, up, down, backlog, dropped, agent, child, typed>>

\* The caller takes a response.  exec returns at the exit code.
Receive(c) ==
    /\ call[c].listening /\ rx[c] # <<>>
    /\ rx' = [rx EXCEPT ![c] = Tail(@)]
    /\ LET msg == Head(rx[c])
       IN  IF msg = Exit
           THEN /\ call' = [call EXCEPT ![c].pc = "answered", ![c].listening = FALSE]
                /\ UNCHANGED got
           ELSE /\ got' = [got EXCEPT ![c][msg[1]] = Append(@, msg[2])]
                /\ UNCHANGED call
    /\ UNCHANGED <<up, down, backlog, dropped, agent, child, typed>>

\* The channel is closed and no exit code came: exec returns -1.
ReceiveEnd(c) ==
    /\ call[c].pc = "waiting" /\ call[c].listening
    /\ rx[c] = <<>> /\ ~call[c].reading
    /\ call' = [call EXCEPT ![c].pc = "cut", ![c].listening = FALSE]
    /\ UNCHANGED <<rx, got, up, down, backlog, dropped, agent, child, typed>>

\* The caller is cancelled, or drops the receiver with what it got.
DropReceiver(c) ==
    /\ call[c].listening
    /\ call' = [call EXCEPT ![c].listening = FALSE,
                            ![c].pc = IF @ = "waiting" THEN "over" ELSE @]
    /\ rx' = [rx EXCEPT ![c] = <<>>]
    /\ got' = [got EXCEPT ![c] = [s \in Streams |-> <<>>]]
    /\ UNCHANGED <<up, down, backlog, dropped, agent, child, typed>>

\* A shell's writing task begins the frame of an input, or of CloseShell once
\* the sender is dropped ...
WriteLength(c) ==
    /\ call[c].frame = "none" /\ c \notin dropped
    /\ \/ call[c].pc = "open" /\ call[c].sent < Inputs
          /\ call' = [call EXCEPT ![c].frame = "Input", ![c].sent = @ + 1]
       \/ call[c].pc = "closing"
          /\ call' = [call EXCEPT ![c].frame = "CloseShell"]
    /\ up' = [up EXCEPT ![c] = Append(@, Length)]
    /\ UNCHANGED <<rx, got, down, backlog, dropped, agent, child, typed>>

\* ... and completes it.
WriteBody(c) ==
    /\ call[c].frame # "none" /\ c \notin dropped
    /\ up' = [up EXCEPT ![c] = Append(@, <<call[c].frame, call[c].sent>>)]
    /\ call' = [call EXCEPT ![c].frame = "none",
                            ![c].pc = IF call[c].frame = "CloseShell" THEN "over" ELSE @]
    /\ Leave(c, down[c])
    /\ UNCHANGED <<rx, got, backlog, dropped, agent, child, typed>>

\* The guest has closed the connection: the writing task gives up.
WriteFails(c) ==
    /\ c \in dropped
    /\ \/ call[c].frame # "none" \/ call[c].pc = "closing"
       \/ call[c].pc = "open" /\ call[c].sent < Inputs
    /\ call' = [call EXCEPT ![c].frame = "none", ![c].pc = "over"]
    /\ Leave(c, down[c])
    /\ UNCHANGED <<rx, got, up, backlog, dropped, agent, child, typed>>

\* The caller of open_shell_channels drops the sender.
DropSender(c) ==
    /\ call[c].pc = "open"
    /\ call' = [call EXCEPT ![c].pc = "closing"]
    /\ UNCHANGED <<rx, got, up, down, backlog, dropped, agent, child, typed>>

\* close_shell aborts both tasks, wherever they are.
CloseShell(c) ==
    /\ call[c].pc = "open"
    /\ call' = [call EXCEPT ![c].pc = "over", ![c].frame = "none", ![c].reading = FALSE]
    /\ Leave(c, down[c])
    /\ UNCHANGED <<rx, got, up, backlog, dropped, agent, child, typed>>

-----------------------------------------------------------------------------
(* The agent: main and handle_connection *)

\* The agent closes the connection it serves, after the end of its requests
\* or an error, and with it the pipes of its child, and accepts the next one.
Hangup ==
    /\ dropped' = dropped \cup {agent.conn}
    /\ up' = [up EXCEPT ![agent.conn] = <<>>]
    /\ child' = [child EXCEPT ![agent.conn].unread = Nothing, ![agent.conn].held = 0]
    /\ agent' = Accepting

Become(mode) == agent' = [agent EXCEPT !.mode = mode, !.len = FALSE]

\* write_response, and what comes after it.
Respond(msg, next) ==
    agent' = [agent EXCEPT !.mode = "write", !.len = FALSE, !.msg = msg, !.next = next]

Accept ==
    /\ agent.mode = "accept" /\ backlog # <<>>
    /\ agent' = [Accepting EXCEPT !.mode = "request", !.conn = Head(backlog)]
    /\ backlog' = Tail(backlog)
    /\ UNCHANGED <<hostVars, up, down, dropped, child, typed>>

Reading == agent.mode \in {"request", "shell"}

\* Mutant: what is not a length is skipped, as if it had been read.
ReadLength_Resync ==
    LET c == agent.conn
    IN  /\ Reading /\ ~agent.len /\ up[c] # <<>>
        /\ up' = [up EXCEPT ![c] = Tail(@)]
        /\ agent' = [agent EXCEPT !.len = (Head(up[c]) = Length)]
        /\ UNCHANGED <<hostVars, down, backlog, dropped, child, typed>>

\* read_request: the first four bytes are the length.  Those of a body, whose
\* own length was lost, are more than MAX_FRAME_SIZE.
ReadLength ==
    LET c == agent.conn
    IN  /\ Reading /\ ~agent.len /\ up[c] # <<>>
        /\ IF Head(up[c]) = Length
           THEN /\ up' = [up EXCEPT ![c] = Tail(@)]
                /\ agent' = [agent EXCEPT !.len = TRUE]
                /\ UNCHANGED <<dropped, child>>
           ELSE Hangup
        /\ UNCHANGED <<hostVars, down, backlog, typed>>

\* The body of a request is there ...
Requested(kind) ==
    agent.len /\ up[agent.conn] # <<>> /\ Head(up[agent.conn])[1] = kind

\* ... and is taken.
TakeRequest == up' = [up EXCEPT ![agent.conn] = Tail(@)]

\* A process is started for the request, or its start fails.
StartChild ==
    LET c == agent.conn
    IN  /\ agent.mode = "request"
        /\ Requested(Kind(c))
        /\ \/ /\ TakeRequest
              /\ child' = [child EXCEPT ![c].state = "running"]
              /\ Become(IF c \in Execs THEN "exec" ELSE "shell")
              /\ UNCHANGED dropped
           \/ Hangup
        /\ UNCHANGED <<hostVars, down, backlog, typed>>

\* Outside a shell, inputs are ignored.
IgnoreInput ==
    /\ agent.mode = "request"
    /\ Requested("Input") \/ Requested("CloseShell")
    /\ TakeRequest
    /\ Become("request")
    /\ UNCHANGED <<hostVars, down, backlog, dropped, child, typed>>

\* Mutant: a client that went away between two requests is not noticed.
ReadEof_Shell ==
    /\ agent.mode = "shell" /\ up[agent.conn] = <<>> /\ ~HostOpen(agent.conn)
    /\ IF ~agent.len
       THEN Become("cleanup") /\ UNCHANGED <<up, dropped, child>>
       ELSE Hangup
    /\ UNCHANGED <<hostVars, down, backlog, typed>>

\* The stream ends: between two requests it ends the connection or the shell;
\* inside one it is an error.
ReadEof ==
    /\ Reading /\ up[agent.conn] = <<>> /\ ~HostOpen(agent.conn)
    /\ IF agent.mode = "shell" /\ ~agent.len
       THEN Become("cleanup") /\ UNCHANGED <<up, dropped, child>>
       ELSE Hangup
    /\ UNCHANGED <<hostVars, down, backlog, typed>>

\* Mutant: a response that finds the connection full is thrown away.
Write_Dropped ==
    LET c == agent.conn
    IN  /\ agent.mode = "write"
        /\ down' = IF HostOpen(c) /\ Len(down[c]) < Buffer
                   THEN [down EXCEPT ![c] = Append(@, agent.msg)] ELSE down
        /\ Become(agent.next)
        /\ UNCHANGED <<hostVars, up, backlog, dropped, child, typed>>

\* A response is written when the connection takes it; one to a host that has
\* gone is lost, and that may be noticed.  Nobody looks at the error of the
\* last response of a shell.
Write ==
    LET c == agent.conn
    IN  /\ agent.mode = "write"
        /\ \/ /\ HostOpen(c) /\ Len(down[c]) < Buffer
              /\ down' = [down EXCEPT ![c] = Append(@, agent.msg)]
              /\ Become(agent.next) /\ UNCHANGED <<up, dropped, child>>
           \/ ~HostOpen(c) /\ Become(agent.next) /\ UNCHANGED <<up, down, dropped, child>>
           \/ ~HostOpen(c) /\ agent.msg # ShellClosed /\ Hangup /\ UNCHANGED down
        /\ UNCHANGED <<hostVars, backlog, typed>>

-----------------------------------------------------------------------------
(* handle_exec and PtySession::run *)

\* Mutant: reads although nothing is there.
ReadStream_Empty ==
    LET c == agent.conn
    IN  /\ agent.mode \in {"exec", "shell"}
        /\ \E s \in StreamsOf(c) :
              /\ child' = [child EXCEPT ![c].read[s] = @ + 1]
              /\ Respond(<<s, child[c].read[s] + 1>>, agent.mode)
        /\ UNCHANGED <<hostVars, up, down, backlog, dropped, typed>>

\* A stream is readable.  In a shell this cancels read_request.
ReadStream ==
    LET c == agent.conn
    IN  /\ agent.mode \in {"exec", "shell"}
        /\ \E s \in StreamsOf(c) :
              /\ child[c].unread[s] > 0
              /\ child' = [child EXCEPT ![c].read[s] = @ + 1, ![c].unread[s] = @ - 1]
              /\ Respond(<<s, child[c].read[s] + 1>>, agent.mode)
        /\ UNCHANGED <<hostVars, up, down, backlog, dropped, typed>>

\* Mutant: the command is over when its output is read.
ReportExit_Drained ==
    LET c == agent.conn
    IN  /\ agent.mode = "exec"
        /\ child[c].state = "exited" \/ child[c].unread = Nothing
        /\ Respond(Exit, "request")
        /\ UNCHANGED <<hostVars, up, down, backlog, dropped, child, typed>>

\* The command has exited: what is left to read is lost.
ReportExit ==
    /\ agent.mode = "exec"
    /\ child[agent.conn].state = "exited"
    /\ child' = [child EXCEPT ![agent.conn].unread = Nothing]
    /\ Respond(Exit, "request")
    /\ UNCHANGED <<hostVars, up, down, backlog, dropped, typed>>

\* The branch of an input is chosen: nothing is read until it is written ...
TakeInput ==
    LET c == agent.conn
    IN  /\ agent.mode = "shell"
        /\ Requested("Input")
        /\ TakeRequest
        /\ agent' = [agent EXCEPT !.mode = "type", !.len = FALSE, !.msg = Head(up[c])]
        /\ UNCHANGED <<hostVars, down, backlog, dropped, child, typed>>

\* ... when the terminal takes it.  Writing to a shell that is over may be an
\* error.
TypeInput ==
    LET c == agent.conn
    IN  /\ agent.mode = "type"
        /\ \/ /\ child[c].held < Terminal
              /\ child' = [child EXCEPT ![c].held = @ + 1]
              /\ typed' = [typed EXCEPT ![c] = Append(@, agent.msg[2])]
              /\ Become("shell") /\ UNCHANGED <<up, dropped>>
           \/ child[c].state = "exited" /\ Hangup /\ UNCHANGED typed
        /\ UNCHANGED <<hostVars, down, backlog>>

\* CloseShell, or the end of the shell, leaves the loop ...
LeaveShell ==
    /\ agent.mode = "shell"
    /\ \/ Requested("CloseShell") /\ TakeRequest
       \/ child[agent.conn].state = "exited" /\ UNCHANGED up
    /\ Become("cleanup")
    /\ UNCHANGED <<hostVars, down, backlog, dropped, child, typed>>

\* ... and the shell is killed and waited for.
Cleanup ==
    LET c == agent.conn
    IN  /\ agent.mode = "cleanup"
        /\ child' = [child EXCEPT ![c].state = "reaped", ![c].unread = Nothing, ![c].held = 0]
        /\ Respond(ShellClosed, "request")
        /\ UNCHANGED <<hostVars, up, down, backlog, dropped, typed>>

\* The process writes while somebody holds the other end ...
ChildWrites(c) ==
    /\ child[c].state = "running" /\ agent.conn = c
    /\ \E s \in StreamsOf(c) :
          /\ child[c].read[s] + child[c].unread[s] < Chunks[s]
          /\ child' = [child EXCEPT ![c].unread[s] = @ + 1]
    /\ UNCHANGED <<hostVars, up, down, backlog, dropped, agent, typed>>

\* ... reads its inputs ...
ChildReads(c) ==
    /\ child[c].state = "running" /\ child[c].held > 0
    /\ child' = [child EXCEPT ![c].held = @ - 1]
    /\ UNCHANGED <<hostVars, up, down, backlog, dropped, agent, typed>>

\* ... and exits when it likes.
ChildExits(c) ==
    /\ child[c].state = "running"
    /\ child' = [child EXCEPT ![c].state = "exited"]
    /\ UNCHANGED <<hostVars, up, down, backlog, dropped, agent, typed>>

-----------------------------------------------------------------------------
Begin(c) == Connect(c) \/ ConnectCancelled(c)

\* What the tasks of a call do by themselves ...
HostStep(c) ==
    \/ PassOn(c) \/ ReadingEnds(c)
    \/ Receive(c) \/ ReceiveEnd(c)
    \/ WriteLength(c) \/ WriteBody(c) \/ WriteFails(c)

\* ... and what its caller decides.
Caller(c) == DropReceiver(c) \/ DropSender(c) \/ CloseShell(c)

AgentStep ==
    \/ Accept
    \/ ReadLength \/ StartChild \/ IgnoreInput \/ ReadEof
    \/ Write
    \/ ReadStream \/ ReportExit
    \/ TakeInput \/ TypeInput \/ LeaveShell \/ Cleanup

Next ==
    \/ \E c \in Calls : Begin(c) \/ HostStep(c) \/ Caller(c)
    \/ AgentStep
    \/ \E c \in Calls : ChildWrites(c) \/ ChildReads(c) \/ ChildExits(c)

Spec == Init /\ [][Next]_vars

(* Tasks that can run are run, on both sides; a caller that listens takes    *)
(* what it gets; and commands exit.  Nobody is obliged to call or to leave,  *)
(* and no shell to read its inputs or to exit.                               *)
Fairness ==
    /\ \A c \in Calls : WF_vars(PassOn(c) \/ ReadingEnds(c))
    /\ \A c \in Calls : WF_vars(Receive(c) \/ ReceiveEnd(c))
    /\ \A c \in Calls : WF_vars(WriteLength(c) \/ WriteBody(c) \/ WriteFails(c))
    /\ WF_vars(AgentStep)
    /\ \A c \in Execs : WF_vars(ChildExits(c))

FairSpec == Spec /\ Fairness

-----------------------------------------------------------------------------
(* Properties *)

Responses == (UNION {{s} \X (1..Chunks[s]) : s \in Streams}) \cup {Exit, ShellClosed}
Requests == {Length} \cup ({"Exec", "OpenShell"} \X {0})
                     \cup ({"Input", "CloseShell"} \X (0..Inputs))

\* The variables keep to their ranges, the channels and connections to their
\* capacities.
TypeOK ==
    /\ call \in [Calls -> [pc : {"idle", "waiting", "answered", "cut",
                                 "open", "closing", "over"},
                           reading : BOOLEAN, listening : BOOLEAN,
                           frame : {"none", "Input", "CloseShell"},
                           sent : 0..Inputs]]
    /\ \A c \in Calls :
          /\ rx[c] \in Seq(Responses) /\ Len(rx[c]) <= Capacity
          /\ down[c] \in Seq(Responses) /\ Len(down[c]) <= Buffer
          /\ up[c] \in Seq(Requests)
          /\ \A s \in Streams : got[c][s] \in Seq(1..Chunks[s])
          /\ typed[c] \in Seq(1..Inputs)
    /\ backlog \in Seq(Calls) /\ dropped \subseteq Calls
    /\ agent \in [mode : {"accept", "request", "exec", "shell", "type", "write", "cleanup"},
                  conn : Calls \cup {NoCall}, len : BOOLEAN,
                  msg : Responses \cup Requests, next : {"request", "exec", "shell"}]
    /\ \A c \in Calls :
          /\ child[c].state \in {"none", "running", "exited", "reaped"}
          /\ \A s \in Streams : {child[c].unread[s], child[c].read[s]} \subseteq 0..Chunks[s]
          /\ child[c].held \in 0..Terminal

\* What a caller has received of a stream, and what a shell has received of
\* the inputs, is a beginning of what was sent: through buffers that fill up,
\* channels, cancelled reads and dropped receivers, no piece is lost in the
\* middle, doubled or overtaken.
InOrder ==
    \A c \in Calls :
        /\ \A s \in Streams : IsPrefix(got[c][s], [i \in 1..Chunks[s] |-> i])
        /\ IsPrefix(typed[c], [i \in 1..Inputs |-> i])

\* An exec that returns an exit code belongs to a command that has exited, and
\* returns all that the agent has read of it.  (What the agent has not read by
\* then is lost.)
ExitComplete ==
    \A c \in Calls : call[c].pc = "answered" =>
        /\ child[c].state = "exited"
        /\ \A s \in Streams : Len(got[c][s]) = child[c].read[s]

\* If nobody keeps a shell for ever, every exec returns: calls that were
\* cancelled or cut in the middle of a frame, and shells closed in any way,
\* leave the agent free for the next connection.  The one exception is a shell
\* that does not read an input the agent types: the agent does not look at its
\* connection then, and waits even when the host has gone.
ShellHeld == \E c \in Shells : HostOpen(c)
Jammed == agent.mode = "type"

Answered ==
    []<>~ShellHeld /\ []<>~Jammed =>
        \A c \in Execs : call[c].pc = "waiting" ~> call[c].pc # "waiting"

\* "ensure child process and shell are cleaned up on teardown": when the agent
\* has left a shell, the shell does not run on.
ShellCleanedUp == \A c \in Shells : c \in dropped => child[c].state # "running"
=============================================================================
