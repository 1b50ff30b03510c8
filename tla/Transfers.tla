----------------------------- MODULE Transfers -----------------------------
(***************************************************************************)
(* Files between the host (akssora-core files.rs) and the guest agent      *)
(* (guest files.rs).                                                       *)
(*                                                                         *)
(* A file is a sequence of chunks, each of some version.  The host sends   *)
(* all chunks of a write and reads one answer; the agent answers the last  *)
(* chunk, and any that it refuses.  It opens the file anew for each chunk, *)
(* and what it writes reaches the file later, unless it is flushed, which  *)
(* only the last chunk is.  One connection is served at a time.            *)
(***************************************************************************)
EXTENDS Integers, Sequences

CONSTANTS
    Versions,   \* of the file, each written once at most
    MaxChunks,  \* bound: chunks of a file
    LineFaults  \* bound: chunks refused or lost, lengths not to be had, connections that end

ASSUME TransferAssumption == {MaxChunks, LineFaults} \subseteq Nat /\ "hole" \notin Versions

VARIABLES
    file,       \* the chunks of the file
    pending,    \* writes on their way to the file
    requests,   \* what the host has sent and the agent has not read
    answers,    \* what the agent has answered and the host has not read
    agent,      \* what the agent is in the middle of
    call,       \* the host's call, also after it has ended
    unused,     \* versions that were not written yet
    hitches     \* faults so far, at most LineFaults

transferVars == <<file, pending, requests, answers, agent, call, unused, hitches>>

Resting == [pc |-> "idle", at |-> 0, total |-> 0]

\* got: the chunks read; size: of the file written, or of the file as the agent found
\* it.  History: refused, whether a chunk was; quiet, whether nothing was pending
\* when the call began, and nothing was lost since; closed, whether the connection
\* ended; unmeasured, whether the agent was not told the length of the file.
NoCall == [pc |-> "done", kind |-> "none", ok |-> FALSE, version |-> "hole", size |-> 0,
           got |-> <<>>, refused |-> FALSE, quiet |-> TRUE, closed |-> FALSE,
           unmeasured |-> FALSE]

TransfersInit ==
    /\ file = <<>>
    /\ pending = {}
    /\ requests = <<>> /\ answers = <<>>
    /\ agent = Resting
    /\ call = NoCall
    /\ unused = Versions
    /\ hitches = 0

Hitch == hitches < LineFaults /\ hitches' = hitches + 1

\* Mutant: the place of a chunk is counted from one too far.
Put_Beyond(f, i, v) ==
    [j \in 1 .. (IF i > Len(f) THEN i + 1 ELSE Len(f)) |->
        IF j = i + 1 THEN v ELSE IF j <= Len(f) THEN f[j] ELSE "hole"]

\* A write at a place extends the file to it.
Put(f, i, v) ==
    [j \in 1 .. (IF i > Len(f) THEN i ELSE Len(f)) |->
        IF j = i THEN v ELSE IF j <= Len(f) THEN f[j] ELSE "hole"]

-----------------------------------------------------------------------------
(* The host *)

\* The agent takes the next connection when it is through with the last.
Free == call.pc = "done" /\ requests = <<>> /\ agent = Resting

\* is_last is computed for each chunk; an empty file is one empty chunk.
WriteFile(v, n) ==
    /\ Free /\ v \in unused
    /\ LET Chunk(i, last) == [kind |-> "write", at |-> i, version |-> v, last |-> last] IN
       requests' = IF n = 0 THEN <<Chunk(0, TRUE)>> ELSE [i \in 1 .. n |-> Chunk(i, i = n)]
    /\ answers' = <<>>
    /\ call' = [NoCall EXCEPT !.pc = "waiting", !.kind = "write", !.version = v, !.size = n,
                              !.quiet = (pending = {})]
    /\ unused' = unused \ {v}
    /\ UNCHANGED <<file, pending, agent, hitches>>

ReadFile ==
    /\ Free
    /\ requests' = <<[kind |-> "read", at |-> 0, version |-> "hole", last |-> TRUE]>>
    /\ answers' = <<>>
    /\ call' = [NoCall EXCEPT !.pc = "waiting", !.kind = "read", !.quiet = (pending = {})]
    /\ UNCHANGED <<file, pending, agent, unused, hitches>>

\* A write takes the first answer for its result, a read goes on to the last chunk.
ReadAnswer ==
    LET a == Head(answers) IN
    /\ call.pc = "waiting" /\ answers # <<>>
    /\ answers' = Tail(answers)
    /\ call' = [call EXCEPT
          !.pc = IF a.kind = "chunk" /\ ~ a.last THEN "waiting" ELSE "done",
          !.ok = a.kind # "error" /\ a.last,
          !.got = IF a.kind = "chunk" THEN @ \o a.data ELSE @]
    /\ UNCHANGED <<file, pending, requests, agent, unused, hitches>>

\* The connection ends, or the caller gives up.  What the agent has not read may
\* still reach it.  A read that meets the end between two answers returns as if it
\* were through.
Disconnect ==
    /\ Hitch
    /\ call.pc = "waiting"
    /\ call' = [call EXCEPT !.pc = "done", !.ok = (call.kind = "read"), !.closed = TRUE]
    /\ \E n \in 0 .. Len(requests) : requests' = SubSeq(requests, 1, n)
    /\ UNCHANGED <<file, pending, answers, agent, unused>>

-----------------------------------------------------------------------------
(* The agent *)

Reply(a) == answers' = Append(answers, a)

\* Mutant: only the last chunk is answered.
Refuse_Silent ==
    /\ Hitch
    /\ agent = Resting /\ requests # <<>>
    /\ requests' = Tail(requests)
    /\ call' = [call EXCEPT !.refused = TRUE]
    /\ UNCHANGED <<file, pending, agent, answers, unused>>

\* The path, the directory, the file or the place in it is not to be had.
Refuse ==
    /\ Hitch
    /\ agent = Resting /\ requests # <<>>
    /\ requests' = Tail(requests)
    /\ Reply([kind |-> "error", last |-> TRUE, data |-> <<>>])
    /\ call' = [call EXCEPT !.refused = TRUE]
    /\ UNCHANGED <<file, pending, agent, unused>>

\* Only an empty write cuts the file off; any other leaves what was behind it.
WriteChunk ==
    LET r == Head(requests) IN
    /\ agent = Resting /\ requests # <<>> /\ r.kind = "write"
    /\ requests' = Tail(requests)
    /\ IF r.last
       THEN /\ file' = IF r.at = 0 THEN <<>> ELSE Put(file, r.at, r.version)
            /\ Reply([kind |-> "ack", last |-> TRUE, data |-> <<>>])
            /\ UNCHANGED pending
       ELSE /\ pending' = pending \cup {[at |-> r.at, version |-> r.version]}
            /\ UNCHANGED <<file, answers>>
    /\ UNCHANGED <<agent, call, unused, hitches>>

\* The result of the flush is ignored.
LastChunkLost ==
    LET r == Head(requests) IN
    /\ Hitch
    /\ agent = Resting /\ requests # <<>> /\ r.kind = "write" /\ r.last /\ r.at > 0
    /\ requests' = Tail(requests)
    /\ Reply([kind |-> "ack", last |-> TRUE, data |-> <<>>])
    /\ call' = [call EXCEPT !.quiet = FALSE]
    /\ UNCHANGED <<file, pending, agent, unused>>

\* Nobody is told when a write that was put off fails.
Settle(w) ==
    /\ w \in pending
    /\ pending' = pending \ {w}
    /\ \/ file' = Put(file, w.at, w.version) /\ UNCHANGED <<call, hitches>>
       \/ Hitch /\ call' = [call EXCEPT !.quiet = FALSE] /\ UNCHANGED file
    /\ UNCHANGED <<requests, answers, agent, unused>>

OpenToRead ==
    /\ agent = Resting /\ requests # <<>> /\ Head(requests).kind = "read"
    /\ requests' = Tail(requests)
    /\ call' = [call EXCEPT !.size = Len(file)]
    /\ IF file = <<>>
       THEN Reply([kind |-> "chunk", last |-> TRUE, data |-> <<>>]) /\ UNCHANGED agent
       ELSE agent' = [pc |-> "reading", at |-> 1, total |-> Len(file)] /\ UNCHANGED answers
    /\ UNCHANGED <<file, pending, unused, hitches>>

\* A length that cannot be had counts as 0, which is also what some file systems report
\* of files that have something in them: the file is answered as an empty one.
OpenUnmeasured ==
    /\ Hitch
    /\ agent = Resting /\ requests # <<>> /\ Head(requests).kind = "read"
    /\ requests' = Tail(requests)
    /\ Reply([kind |-> "chunk", last |-> TRUE, data |-> <<>>])
    /\ call' = [call EXCEPT !.size = 0, !.unmeasured = TRUE]
    /\ UNCHANGED <<file, pending, agent, unused>>

\* The file is read to the length it had when it was opened.
ReadChunk ==
    LET last == agent.at >= agent.total IN
    /\ agent.pc = "reading"
    /\ Reply([kind |-> "chunk", last |-> last, data |-> <<file[agent.at]>>])
    /\ agent' = IF last THEN Resting ELSE [agent EXCEPT !.at = @ + 1]
    /\ UNCHANGED <<file, pending, requests, call, unused, hitches>>

ReadFails ==
    /\ Hitch
    /\ agent.pc = "reading"
    /\ Reply([kind |-> "error", last |-> TRUE, data |-> <<>>])
    /\ agent' = Resting
    /\ UNCHANGED <<file, pending, requests, call, unused>>

TransfersNext ==
    \/ \E v \in Versions, n \in 0 .. MaxChunks : WriteFile(v, n)
    \/ ReadFile \/ ReadAnswer \/ Disconnect
    \/ Refuse \/ WriteChunk \/ LastChunkLost
    \/ OpenToRead \/ OpenUnmeasured \/ ReadChunk \/ ReadFails
    \/ \E w \in pending : Settle(w)

-----------------------------------------------------------------------------

\* The types of a file, its transfers and the call of the two files.rs.
TransfersTypeOK ==
    /\ \A i \in 1 .. Len(file) : file[i] \in Versions \cup {"hole"}
    /\ Len(file) <= MaxChunks
    /\ \A w \in pending : w.at \in 1 .. MaxChunks /\ w.version \in Versions
    /\ Len(requests) <= MaxChunks + 1
    /\ agent.pc \in {"idle", "reading"} /\ agent.at <= agent.total
    /\ hitches \in 0 .. LineFaults

\* Is there, or is on its way.
Arrives(i, v) == (i <= Len(file) /\ file[i] = v) \/ [at |-> i, version |-> v] \in pending

\* A write_file that returns Ok had none of its chunks refused, and the file has them all,
\* or will, when nothing was on its way to the file before and nothing was lost.  A
\* read_file that returns Ok has the whole file as it was found, or the connection ended
\* between two chunks, or the agent was not told the length and Ok has nothing at all;
\* and always a beginning of the file when nothing was on its way.
TransferHonest ==
    call.pc = "done" /\ call.ok =>
        CASE call.kind = "write" ->
                /\ ~ call.refused
                /\ call.quiet => \A i \in 1 .. call.size : Arrives(i, call.version)
          [] call.kind = "read" ->
                /\ ~ call.closed =>
                      IF call.unmeasured THEN call.got = <<>> ELSE Len(call.got) = call.size
                /\ call.quiet => call.got = SubSeq(file, 1, Len(call.got))
=============================================================================
