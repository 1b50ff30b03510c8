-------------------------- MODULE GuestAgentProofs --------------------------
(***************************************************************************)
(* Proofs about GuestAgent, for any calls, pieces, inputs and capacities:   *)
(* its types, that no stream loses a piece in the middle, and that an exec  *)
(* that returns an exit code returns all that was read of its command.      *)
(***************************************************************************)
EXTENDS GuestAgent, SequenceTheorems, TLAPS

CallStates == {"idle", "waiting", "answered", "cut", "open", "closing", "over"}
Modes == {"accept", "request", "exec", "shell", "type", "write", "cleanup"}
ChildStates == {"none", "running", "exited", "reaped"}

-----------------------------------------------------------------------------
(* The inductive invariant *)

CallRecs == [pc : CallStates, reading : BOOLEAN, listening : BOOLEAN,
             frame : {"none", "Input", "CloseShell"}, sent : 0..Inputs]
ChildRecs == [state : ChildStates, unread : [Streams -> Nat],
              read : [Streams -> Nat], held : Nat]
AgentRecs == [mode : Modes, conn : Calls \cup {NoCall}, len : BOOLEAN,
              msg : Responses \cup Requests, next : {"request", "exec", "shell"}]

\* The variables as functions and records; the counts are bounded elsewhere.
HostTypes ==
    /\ call \in [Calls -> CallRecs]
    /\ rx \in [Calls -> Seq(Responses)]
    /\ got \in [Calls -> [Streams -> Seq(Nat)]]

WireTypes ==
    /\ up \in [Calls -> Seq(Requests)]
    /\ down \in [Calls -> Seq(Responses)]
    /\ backlog \in Seq(Calls)
    /\ dropped \in SUBSET Calls

GuestTypes ==
    /\ agent \in AgentRecs
    /\ child \in [Calls -> ChildRecs]
    /\ typed \in [Calls -> Seq(Nat)]

\* What each part holds at most.
Bounds(c) ==
    /\ Len(rx[c]) <= Capacity /\ Len(down[c]) <= Buffer /\ child[c].held <= Terminal
    /\ \A s \in Streams : child[c].read[s] + child[c].unread[s] <= Chunks[s]

\* What a call of each kind, and the agent in each of its modes, can be at.
HostModes(c) ==
    /\ call[c].pc \in {"waiting", "answered", "cut"} => c \in Execs
    /\ call[c].pc \in {"open", "closing"} => c \in Shells
    /\ call[c].frame # "none" => call[c].pc \in {"open", "closing"}
    /\ call[c].frame = "Input" => call[c].sent > 0
    /\ call[c].pc = "answered" => ~call[c].listening
    /\ c \in Execs => call[c].sent = 0

\* The agent serves the child of a connection, now or after the response it writes.
Runs(m) == agent.mode = m \/ (agent.mode = "write" /\ agent.next = m)
Busy(c) == agent.conn = c /\ (Runs("exec") \/ Runs("shell") \/ agent.mode \in {"type", "cleanup"})

AgentModes ==
    LET c == agent.conn
    IN  /\ agent.mode = "accept" <=> c = NoCall
        /\ agent.len => agent.mode \in {"request", "shell"}
        /\ Runs("exec") => c \in Execs
        /\ Runs("shell") \/ agent.mode \in {"type", "cleanup"} => c \in Shells
        /\ c # NoCall /\ Busy(c) => child[c].state \in {"running", "exited"}
        /\ Runs("request") /\ c \in Shells => child[c].state \in {"none", "reaped"}
        /\ agent.mode = "type" => agent.msg \in Requests /\ agent.msg[1] = "Input"

WriteModes ==
    LET c == agent.conn
    IN  agent.mode = "write" =>
           /\ agent.msg \in Responses
           /\ agent.next # "request" => agent.msg[1] \in Streams
           /\ agent.next = "request" => agent.msg \in {Exit, ShellClosed}
           /\ agent.msg = Exit => c \in Execs /\ child[c].state = "exited"
           /\ agent.msg = ShellClosed => child[c].state = "reaped"

\* A connection waits, is served, or is over.
Placed ==
    /\ \A i, j \in 1..Len(backlog) : backlog[i] = backlog[j] => i = j
    /\ \A i \in 1..Len(backlog) :
          /\ backlog[i] # agent.conn /\ backlog[i] \notin dropped
          /\ call[backlog[i]].pc # "idle" /\ child[backlog[i]].state = "none"
    /\ agent.conn \notin dropped
    /\ agent.conn # NoCall => call[agent.conn].pc # "idle"

\* Nothing of a call is there before it is made, and nothing of a child before
\* it is started.
Fresh(c) ==
    /\ call[c].pc = "idle" =>
          /\ call[c] = NewCall /\ c \notin dropped
          /\ rx[c] = <<>> /\ down[c] = <<>> /\ up[c] = <<>>
          /\ child[c].state = "none"
    /\ child[c].state = "none" =>
          typed[c] = <<>> /\ \A s \in Streams : child[c].read[s] = 0
    /\ c \in dropped => up[c] = <<>>

\* The request of a call is the first on its connection and is there once: the
\* child is started at most once, and what a shell gets comes after it.
First(c) == IF agent.conn = c /\ agent.len THEN 1 ELSE 2
Opened(c) ==
    \/ child[c].state # "none"
    \/ /\ First(c) <= Len(up[c])
       /\ up[c][First(c)] = <<Kind(c), 0>>
       /\ First(c) = 2 => up[c][1] = Length

Opening(c) ==
    c \notin dropped =>
       /\ call[c].pc \in {"open", "closing"} => Opened(c)
       /\ \A i \in 1..Len(up[c]) :
             /\ up[c][i][1] \in {"Input", "CloseShell"} => Opened(c)
             /\ up[c][i][1] \in {"Exec", "OpenShell"} =>
                   child[c].state = "none" /\ i = First(c) /\ Opened(c)

\* In a sequence, the pieces of a stream follow lo: each is larger than those
\* before it, and those it follows are there; none is larger than hi.
Ordered(q, s, lo, hi) ==
    \A i \in 1..Len(q) : q[i][1] = s =>
       /\ lo < q[i][2] /\ q[i][2] <= hi
       /\ \A j \in 1..Len(q) : j < i /\ q[j][1] = s => q[j][2] < q[i][2]
       /\ \A n \in 1..hi : lo < n /\ n < q[i][2] =>
             \E j \in 1..Len(q) : j < i /\ q[j] = <<s, n>>

Complete(q, s, lo, hi) ==
    \A n \in 1..hi : lo < n => \E i \in 1..Len(q) : q[i] = <<s, n>>

Counts(q) == \A i \in 1..Len(q) : q[i] = i

\* The responses on their way to a caller, with the one being written: none
\* that the host can still read.
Pending(c) == IF agent.conn = c /\ agent.mode = "write" THEN <<agent.msg>> ELSE <<>>
Line(c) == IF HostOpen(c) THEN rx[c] \o (down[c] \o Pending(c)) ELSE rx[c]

EndsInExit(q) == q # <<>> /\ q[Len(q)] = Exit

\* A listening caller has a beginning of what the agent has read of each stream, and
\* what follows is on its way: all of it while the host reads, or when the exit code
\* is there too.
Delivered(c) ==
    call[c].listening =>
       \A s \in Streams :
          /\ Ordered(Line(c), s, Len(got[c][s]), child[c].read[s])
          /\ HostOpen(c) \/ EndsInExit(Line(c)) =>
                Complete(Line(c), s, Len(got[c][s]), child[c].read[s])

\* The last response comes last, when the child is done for.
LastComesLast(c) ==
    call[c].listening =>
       /\ \A i \in 1..Len(rx[c]) : rx[c][i] # ShellClosed
       /\ \A i \in 1..Len(Line(c)) : Line(c)[i] \in {Exit, ShellClosed} =>
             /\ i = Len(Line(c)) /\ ~Busy(c)
             /\ Line(c)[i] = Exit => c \in Execs /\ child[c].state = "exited"
             /\ Line(c)[i] = ShellClosed => child[c].state = "reaped"

Collected(c) ==
    /\ \A s \in Streams : Counts(got[c][s]) /\ Len(got[c][s]) <= child[c].read[s]
    /\ call[c].pc = "answered" =>
          /\ child[c].state = "exited" /\ ~Busy(c)
          /\ \A s \in Streams : Len(got[c][s]) = child[c].read[s]

\* The inputs on their way to a shell, with the one being typed.
Typing(c) == IF agent.conn = c /\ agent.mode = "type" THEN <<agent.msg>> ELSE <<>>
Framed(c) == IF call[c].frame = "Input" THEN call[c].sent - 1 ELSE call[c].sent

Entered(c) ==
    /\ Counts(typed[c]) /\ Len(typed[c]) <= Framed(c)
    /\ c \notin dropped /\ child[c].state # "reaped" =>
          /\ Ordered(Typing(c) \o up[c], "Input", Len(typed[c]), Framed(c))
          /\ call[c].pc \in {"open", "closing"} =>
                Complete(Typing(c) \o up[c], "Input", Len(typed[c]), Framed(c))

Types == HostTypes /\ WireTypes /\ GuestTypes
Standing(c) == Bounds(c) /\ HostModes(c) /\ Fresh(c) /\ Opening(c)
Streaming(c) == Delivered(c) /\ LastComesLast(c) /\ Collected(c) /\ Entered(c)

IInv ==
    /\ Types /\ AgentModes /\ WriteModes /\ Placed
    /\ \A c \in Calls : Standing(c) /\ Streaming(c)

-----------------------------------------------------------------------------
(* Sequences *)

LEMMA ConcatMove ==
    ASSUME NEW S, NEW a \in Seq(S), NEW b \in Seq(S), NEW p \in Seq(S), b # <<>>
    PROVE  Append(a, Head(b)) \o (Tail(b) \o p) = a \o (b \o p)
<1>1. Head(b) \in S /\ Tail(b) \in Seq(S) /\ Tail(b) \o p \in Seq(S)
  BY HeadTailProperties, ConcatProperties
<1>2. <<Head(b)>> \in Seq(S)
  BY <1>1
<1>3. <<Head(b)>> \o Tail(b) = b
  <2>1. <<Head(b)>> \o Tail(b) \in Seq(S)
    BY <1>1, <1>2, ConcatProperties
  <2>2. Len(<<Head(b)>> \o Tail(b)) = Len(b)
    BY <1>1, <1>2, ConcatProperties, HeadTailProperties, EmptySeq
  <2>3. ASSUME NEW i \in 1..Len(<<Head(b)>> \o Tail(b))
        PROVE  (<<Head(b)>> \o Tail(b))[i] = b[i]
    <3>1. Len(b) \in Nat \ {0} /\ Len(Tail(b)) = Len(b) - 1 /\ Len(<<Head(b)>>) = 1
      BY HeadTailProperties, EmptySeq
    <3>2. i \in 1..Len(b) /\ i \in 1..Len(<<Head(b)>>) + Len(Tail(b))
      BY <2>2, <3>1
    <3>3. (<<Head(b)>> \o Tail(b))[i] =
             IF i <= Len(<<Head(b)>>) THEN <<Head(b)>>[i] ELSE Tail(b)[i - Len(<<Head(b)>>)]
      BY <1>1, <1>2, <3>2, ConcatProperties
    <3>4. CASE i = 1
      BY <3>1, <3>3, <3>4
    <3>5. CASE i > 1
      <4>1. i - 1 \in 1..Len(Tail(b))
        BY <3>1, <3>2, <3>5
      <4>2. Tail(b)[i - 1] = b[i - 1 + 1]
        BY <4>1, HeadTailProperties
      <4> QED BY <3>1, <3>2, <3>3, <3>5, <4>2
    <3> QED BY <3>2, <3>4, <3>5
  <2> QED BY <2>1, <2>2, <2>3, SeqEqual
<1>4. Append(a, Head(b)) = a \o <<Head(b)>>
  BY <1>1, AppendIsConcat
<1>5. (a \o <<Head(b)>>) \o (Tail(b) \o p) = a \o (<<Head(b)>> \o (Tail(b) \o p))
  <2>1. ASSUME NEW h \in Seq(S), NEW r \in Seq(S) PROVE (a \o h) \o r = a \o (h \o r)
    BY ConcatAssociative, SMTT(30)
  <2> QED BY <1>1, <1>2, <2>1
<1>6. <<Head(b)>> \o (Tail(b) \o p) = (<<Head(b)>> \o Tail(b)) \o p
  BY <1>1, <1>2, ConcatAssociative
<1> QED BY <1>3, <1>4, <1>5, <1>6

LEMMA EmptyTypes == \A S : <<>> \in Seq(S)
BY EmptySeq

LEMMA OneTypes == ASSUME NEW S, NEW e \in S PROVE <<e>> \in Seq(S) /\ Len(<<e>>) = 1
OBVIOUS

LEMMA AppendMove ==
    ASSUME NEW S, NEW a \in Seq(S), NEW b \in Seq(S), NEW e \in S
    PROVE  /\ a \o (Append(b, e) \o <<>>) = a \o (b \o <<e>>)
           /\ a \o (b \o <<e>>) = Append(a \o (b \o <<>>), e)
           /\ Append(a, e) \o b = a \o (<<e>> \o b)
           /\ a \o Append(b, e) = Append(a \o b, e)
<1>1. Append(b, e) \in Seq(S) /\ <<e>> \in Seq(S)
  BY AppendProperties, OneTypes
<1>2. Append(b, e) = b \o <<e>> /\ Append(b, e) \o <<>> = Append(b, e) /\ b \o <<>> = b
  BY <1>1, AppendIsConcat, ConcatEmptySeq
<1>3. a \o b \in Seq(S) /\ Append(a \o b, e) = (a \o b) \o <<e>>
  BY ConcatProperties, AppendIsConcat
<1>4. (a \o b) \o <<e>> = a \o (b \o <<e>>)
  BY <1>1, ConcatAssociative
<1>5. Append(a, e) = a \o <<e>> /\ (a \o <<e>>) \o b = a \o (<<e>> \o b)
  BY <1>1, AppendIsConcat, ConcatAssociative
<1> QED BY <1>2, <1>3, <1>4, <1>5

LEMMA TailConcat ==
    ASSUME NEW S, NEW a \in Seq(S), NEW b \in Seq(S), a # <<>>
    PROVE  /\ a \o b # <<>>
           /\ Head(a \o b) = Head(a)
           /\ Tail(a \o b) = Tail(a) \o b
<1>1. Head(a) \in S /\ Tail(a) \in Seq(S) /\ Tail(a) \o b \in Seq(S)
  BY HeadTailProperties, ConcatProperties
<1>2. a \o b = <<Head(a)>> \o (Tail(a) \o b)
  <2>1. Append(<<>>, Head(a)) \o (Tail(a) \o b) = <<>> \o (a \o b)
    BY EmptyTypes, ConcatMove
  <2>2. Append(<<>>, Head(a)) = <<Head(a)>>
    OBVIOUS
  <2>3. <<>> \o (a \o b) = a \o b
    BY ConcatProperties, ConcatEmptySeq
  <2> QED BY <2>1, <2>2, <2>3
<1>3. <<Head(a)>> \in Seq(S) /\ a \o b \in Seq(S) /\ a \o b # <<>>
  BY <1>1, OneTypes, ConcatProperties, ConcatEqualIffEmpty
<1>4. Head(a \o b) = Head(a)
  <2>1. 1 \in 1..Len(a) + Len(b) /\ 1 <= Len(a)
    BY EmptySeq, LenProperties
  <2>2. (a \o b)[1] = a[1]
    BY <2>1, ConcatProperties
  <2> QED BY <2>2
<1>5. Tail(a \o b) = Tail(a) \o b
  <2> DEFINE t == Tail(a) \o b
             w == a \o b
  <2>1. /\ Len(w) = Len(a) + Len(b) /\ Len(Tail(a)) = Len(a) - 1
        /\ Len(t) = Len(Tail(a)) + Len(b) /\ Len(Tail(w)) = Len(w) - 1
        /\ Len(a) \in Nat \ {0} /\ Len(b) \in Nat
    BY <1>1, <1>3, ConcatProperties, HeadTailProperties, EmptySeq, LenProperties
  <2>2. ASSUME NEW i \in 1..Len(Tail(w)) PROVE Tail(w)[i] = t[i]
    <3>1. Tail(w)[i] = w[i + 1]
      BY <1>3, HeadTailProperties
    <3>2. i + 1 \in 1..Len(a) + Len(b) /\ i \in 1..Len(Tail(a)) + Len(b)
      BY <2>1
    <3>3. w[i + 1] = IF i + 1 <= Len(a) THEN a[i + 1] ELSE b[i + 1 - Len(a)]
      BY <3>2, ConcatProperties
    <3>4. t[i] = IF i <= Len(Tail(a)) THEN Tail(a)[i] ELSE b[i - Len(Tail(a))]
      BY <1>1, <3>2, ConcatProperties
    <3>5. CASE i <= Len(Tail(a))
      <4>1. i \in 1..Len(Tail(a)) /\ i + 1 <= Len(a)
        BY <2>1, <3>2, <3>5
      <4>2. Tail(a)[i] = a[i + 1]
        BY <4>1, HeadTailProperties
      <4> QED BY <3>1, <3>3, <3>4, <4>1, <4>2
    <3>6. CASE ~(i <= Len(Tail(a)))
      <4>1. ~(i + 1 <= Len(a)) /\ i + 1 - Len(a) = i - Len(Tail(a))
        BY <2>1, <3>2, <3>6
      <4> QED BY <3>1, <3>3, <3>4, <3>6, <4>1
    <3> QED BY <3>5, <3>6
  <2>3. Tail(w) \in Seq(S) /\ t \in Seq(S) /\ Len(Tail(w)) = Len(t)
    BY <1>1, <1>3, <2>1, HeadTailProperties
  <2> QED BY <2>2, <2>3, SeqEqual
<1> QED BY <1>3, <1>4, <1>5

LEMMA OneConcat ==
    ASSUME NEW S, NEW e \in S, NEW b \in Seq(S)
    PROVE  <<e>> \o b # <<>> /\ Head(<<e>> \o b) = e /\ Tail(<<e>> \o b) = b
<1>1. <<e>> \in Seq(S) /\ <<e>> # <<>> /\ Head(<<e>>) = e /\ Tail(<<e>>) = <<>>
  OBVIOUS
<1> QED BY <1>1, TailConcat, ConcatEmptySeq

LEMMA EntryTypes ==
    ASSUME NEW S, NEW q \in Seq(S)
    PROVE  /\ Len(q) \in Nat
           /\ \A i \in 1..Len(q) : q[i] \in S
           /\ q # <<>> => /\ 1 \in 1..Len(q) /\ Len(q) \in 1..Len(q)
                          /\ Head(q) = q[1] /\ Head(q) \in S /\ Tail(q) \in Seq(S)
BY EmptySeq, LenProperties, ElementOfSeq, HeadTailProperties

-----------------------------------------------------------------------------
(* The order of a stream *)

LEMMA ResponseTypes ==
    ASSUME NEW e \in Responses
    PROVE  /\ e = <<e[1], e[2]>> /\ e[2] \in Nat
           /\ e \in {Exit, ShellClosed} \/ (e[1] \in Streams /\ e[2] \in 1..Chunks[e[1]])
<1>1. CASE e \in {Exit, ShellClosed}
  BY <1>1 DEF Exit, ShellClosed
<1>2. CASE \E s \in Streams : e \in {s} \X (1..Chunks[s])
  <2>1. PICK s \in Streams : e \in {s} \X (1..Chunks[s])
    BY <1>2
  <2>2. e[1] = s /\ e[2] \in 1..Chunks[s] /\ e = <<e[1], e[2]>>
    BY <2>1
  <2>3. Chunks[s] \in Nat
    BY BoundsAssumption
  <2> QED BY <2>2, <2>3
<1> QED BY <1>1, <1>2 DEF Responses

LEMMA PieceTypes ==
    ASSUME NEW s \in Streams, NEW n \in 1..Chunks[s]
    PROVE  <<s, n>> \in Responses
BY DEF Responses

LEMMA RequestTypes ==
    ASSUME NEW e \in Requests
    PROVE  e = <<e[1], e[2]>> /\ e[2] \in Nat
BY BoundsAssumption DEF Requests, Length

LEMMA Marks ==
    /\ Exit \in Responses /\ ShellClosed \in Responses
    /\ Exit[1] \notin Streams /\ ShellClosed[1] \notin Streams /\ Exit # ShellClosed
<1>1. Exit \in Responses /\ ShellClosed \in Responses
  BY DEF Responses
<1> QED BY <1>1 DEF Exit, ShellClosed, Streams

LEMMA RequestMarks ==
    /\ Length \in Requests /\ Length[1] = "Length"
    /\ \A k \in {"Exec", "OpenShell"} : <<k, 0>> \in Requests
    /\ \A k \in {"Input", "CloseShell"}, n \in 0..Inputs : <<k, n>> \in Requests
BY DEF Requests, Length

\* The first of the pieces that follow lo is lo + 1, and the rest follow it.
LEMMA OrderedTail ==
    ASSUME NEW S, NEW q \in Seq(S), q # <<>>, NEW s, NEW lo \in Nat, NEW hi \in Nat,
           \A e \in S : e = <<e[1], e[2]>> /\ e[2] \in Nat,
           Ordered(q, s, lo, hi)
    PROVE  /\ Head(q)[1] = s =>
                 /\ Head(q) = <<s, lo + 1>> /\ lo + 1 <= hi
                 /\ Ordered(Tail(q), s, lo + 1, hi)
                 /\ Complete(q, s, lo, hi) => Complete(Tail(q), s, lo + 1, hi)
           /\ Head(q)[1] # s =>
                 /\ Ordered(Tail(q), s, lo, hi)
                 /\ Complete(q, s, lo, hi) => Complete(Tail(q), s, lo, hi)
<1> DEFINE t == Tail(q)
<1>1. /\ Len(q) \in Nat \ {0} /\ Len(t) = Len(q) - 1
      /\ \A i \in 1..Len(q) : q[i] \in S
      /\ \A i \in 1..Len(t) : t[i] = q[i + 1]
      /\ Head(q) = q[1]
  BY EmptySeq, LenProperties, HeadTailProperties, ElementOfSeq
<1> HIDE DEF t
<1>2. \A i \in 1..Len(q) : q[i] = <<q[i][1], q[i][2]>> /\ q[i][2] \in Nat
  BY <1>1
\* Every entry but the first moves up by one.
<1>3. ASSUME NEW k \in 1..Len(q), k # 1
      PROVE  k - 1 \in 1..Len(t) /\ t[k - 1] = q[k]
  <2>1. k - 1 \in 1..Len(t) /\ k - 1 + 1 = k
    BY <1>1, <1>3
  <2> QED BY <1>1, <2>1
<1>4. ASSUME NEW i \in 1..Len(t)
      PROVE  i + 1 \in 1..Len(q) /\ t[i] = q[i + 1] /\ 1 < i + 1 /\ 1 \in 1..Len(q)
  BY <1>1, SMTT(30)
<1>5. ASSUME NEW i \in 1..Len(t), t[i][1] = s
      PROVE  /\ lo < t[i][2] /\ t[i][2] <= hi /\ t[i][2] \in Nat
             /\ \A j \in 1..Len(t) : j < i /\ t[j][1] = s => t[j][2] < t[i][2]
             /\ \A n \in 1..hi : lo < n /\ n < t[i][2] /\ <<s, n>> # q[1] =>
                   \E j \in 1..Len(t) : j < i /\ t[j] = <<s, n>>
             /\ q[1][1] = s => q[1][2] < t[i][2]
  <2> DEFINE m == i + 1
  <2>1. m \in 1..Len(q) /\ t[i] = q[m] /\ q[m][1] = s /\ 1 < m /\ 1 \in 1..Len(q)
    BY <1>4, <1>5
  <2>a. m = i + 1
    OBVIOUS
  <2> HIDE DEF m
  <2>2. /\ lo < q[m][2] /\ q[m][2] <= hi
        /\ \A j \in 1..Len(q) : j < m /\ q[j][1] = s => q[j][2] < q[m][2]
        /\ \A n \in 1..hi : lo < n /\ n < q[m][2] =>
              \E j \in 1..Len(q) : j < m /\ q[j] = <<s, n>>
    BY <2>1 DEF Ordered
  <2>3. ASSUME NEW j \in 1..Len(t), j < i, t[j][1] = s PROVE t[j][2] < t[i][2]
    <3>1. j + 1 \in 1..Len(q) /\ t[j] = q[j + 1]
      BY <1>4
    <3>2. j + 1 < m
      BY <2>a, <2>3
    <3>3. q[j + 1][2] < q[m][2]
      BY <2>2, <2>3, <3>1, <3>2
    <3> QED BY <2>1, <3>1, <3>3
  <2>4. ASSUME NEW n \in 1..hi, lo < n, n < t[i][2], <<s, n>> # q[1]
        PROVE  \E j \in 1..Len(t) : j < i /\ t[j] = <<s, n>>
    <3>1. PICK k \in 1..Len(q) : k < m /\ q[k] = <<s, n>>
      BY <2>1, <2>2, <2>4
    <3>2. k # 1
      BY <2>4, <3>1
    <3>3. k - 1 \in 1..Len(t) /\ t[k - 1] = q[k]
      BY <1>3, <3>2
    <3>4. k - 1 < i
      BY <2>a, <3>1
    <3> QED BY <3>1, <3>3, <3>4
  <2>5. q[1][1] = s => q[1][2] < t[i][2]
    BY <2>1, <2>2
  <2>6. t[i][2] \in Nat
    BY <1>2, <2>1
  <2> QED BY <2>1, <2>2, <2>3, <2>4, <2>5, <2>6
<1>6. ASSUME Complete(q, s, lo, hi), NEW n \in 1..hi, lo < n, <<s, n>> # q[1]
      PROVE  \E i \in 1..Len(t) : t[i] = <<s, n>>
  <2>1. PICK k \in 1..Len(q) : q[k] = <<s, n>>
    BY <1>6 DEF Complete
  <2>2. k # 1
    BY <1>6, <2>1
  <2> QED BY <1>3, <2>1, <2>2
<1>7. ASSUME q[1][1] = s
      PROVE  /\ q[1] = <<s, lo + 1>> /\ lo + 1 <= hi
             /\ Ordered(t, s, lo + 1, hi)
             /\ Complete(q, s, lo, hi) => Complete(t, s, lo + 1, hi)
  <2>1. 1 \in 1..Len(q) /\ q[1] = <<s, q[1][2]>> /\ q[1][2] \in Nat
    BY <1>1, <1>2, <1>7
  <2>2. lo < q[1][2] /\ q[1][2] <= hi
    BY <1>7, <2>1 DEF Ordered
  <2>3. \A n \in 1..hi : lo < n /\ n < q[1][2] => \E j \in 1..Len(q) : j < 1 /\ q[j] = <<s, n>>
    BY <1>7, <2>1 DEF Ordered
  <2>4. q[1][2] = lo + 1
    <3>1. lo + 1 \in 1..hi /\ lo < lo + 1
      BY <2>1, <2>2
    <3>2. ~(lo + 1 < q[1][2])
      <4>1. ASSUME NEW j \in 1..Len(q), j < 1 PROVE FALSE
        BY <1>1, <4>1
      <4> QED BY <2>3, <3>1, <4>1
    <3> QED BY <2>1, <2>2, <3>2
  <2>5. q[1] = <<s, lo + 1>> /\ lo + 1 <= hi
    BY <2>1, <2>2, <2>4
  <2>6. \A n \in 1..hi : lo + 1 < n => lo < n /\ <<s, n>> # q[1]
    BY <2>5
  <2>7. Ordered(t, s, lo + 1, hi)
    <3>1. ASSUME NEW i \in 1..Len(t), t[i][1] = s PROVE lo + 1 < t[i][2]
      BY <1>5, <1>7, <2>4, <3>1
    <3> QED BY <1>5, <2>6, <3>1 DEF Ordered
  <2>8. Complete(q, s, lo, hi) => Complete(t, s, lo + 1, hi)
    BY <1>6, <2>6 DEF Complete
  <2> QED BY <2>5, <2>7, <2>8
<1>8. ASSUME q[1][1] # s
      PROVE  /\ Ordered(t, s, lo, hi)
             /\ Complete(q, s, lo, hi) => Complete(t, s, lo, hi)
  <2>1. \A n : <<s, n>> # q[1]
    BY <1>8
  <2> QED BY <1>5, <1>6, <2>1 DEF Ordered, Complete
<1> QED BY <1>1, <1>7, <1>8 DEF t

\* What is appended is the next piece, or none of the stream.
LEMMA OrderedAppend ==
    ASSUME NEW S, NEW q \in Seq(S), NEW s, NEW lo \in Nat, NEW hi \in Nat, NEW e \in S,
           \A x \in S : x = <<x[1], x[2]>> /\ x[2] \in Nat,
           Ordered(q, s, lo, hi)
    PROVE  /\ e[1] # s =>
                 /\ Ordered(Append(q, e), s, lo, hi)
                 /\ Complete(q, s, lo, hi) => Complete(Append(q, e), s, lo, hi)
           /\ e = <<s, hi + 1>> /\ lo <= hi /\ Complete(q, s, lo, hi) =>
                 /\ Ordered(Append(q, e), s, lo, hi + 1)
                 /\ Complete(Append(q, e), s, lo, hi + 1)
<1> DEFINE t == Append(q, e)
<1>1. /\ Len(q) \in Nat /\ Len(t) = Len(q) + 1
      /\ \A i \in 1..Len(q) : t[i] = q[i] /\ q[i] \in S
      /\ t[Len(q) + 1] = e
  BY LenProperties, AppendProperties, ElementOfSeq
<1> HIDE DEF t
<1>2. /\ \A i \in 1..Len(q) : i \in 1..Len(t) /\ i < Len(q) + 1 /\ t[i] = q[i] /\ q[i][2] \in Nat
      /\ \A i \in 1..Len(t) : i \in 1..Len(q) \/ i = Len(q) + 1
      /\ Len(q) + 1 \in 1..Len(t)
      /\ \A i \in 1..Len(q), j \in 1..Len(t) : j < i => j \in 1..Len(q)
      /\ \A j \in 1..Len(t) : j < Len(q) + 1 => j \in 1..Len(q)
  BY <1>1
<1>3. ASSUME NEW i \in 1..Len(q), t[i][1] = s
      PROVE  /\ lo < t[i][2] /\ t[i][2] <= hi
             /\ \A j \in 1..Len(t) : j < i /\ t[j][1] = s => t[j][2] < t[i][2]
             /\ \A n \in 1..hi : lo < n /\ n < t[i][2] =>
                   \E j \in 1..Len(t) : j < i /\ t[j] = <<s, n>>
  <2>1. t[i] = q[i] /\ q[i][1] = s
    BY <1>2, <1>3
  <2>2. /\ lo < q[i][2] /\ q[i][2] <= hi
        /\ \A j \in 1..Len(q) : j < i /\ q[j][1] = s => q[j][2] < q[i][2]
        /\ \A n \in 1..hi : lo < n /\ n < q[i][2] =>
              \E j \in 1..Len(q) : j < i /\ q[j] = <<s, n>>
    BY <2>1 DEF Ordered
  <2> QED BY <1>2, <2>1, <2>2
<1>4. Complete(q, s, lo, hi) => Complete(t, s, lo, hi)
  BY <1>2 DEF Complete
<1>5. ASSUME e[1] # s PROVE Ordered(t, s, lo, hi)
  <2>1. ASSUME NEW i \in 1..Len(t), t[i][1] = s PROVE i \in 1..Len(q)
    BY <1>1, <1>2, <1>5, <2>1
  <2> QED BY <1>3, <2>1 DEF Ordered
<1>6. ASSUME e = <<s, hi + 1>>, lo <= hi, Complete(q, s, lo, hi)
      PROVE  Ordered(t, s, lo, hi + 1) /\ Complete(t, s, lo, hi + 1)
  <2>1. ASSUME NEW n \in 1..hi + 1, n # hi + 1 PROVE n \in 1..hi
    BY <2>1
  <2>2. ASSUME NEW i \in 1..Len(q), t[i][1] = s
        PROVE  /\ lo < t[i][2] /\ t[i][2] <= hi + 1
               /\ \A j \in 1..Len(t) : j < i /\ t[j][1] = s => t[j][2] < t[i][2]
               /\ \A n \in 1..hi + 1 : lo < n /\ n < t[i][2] =>
                     \E j \in 1..Len(t) : j < i /\ t[j] = <<s, n>>
    <3>1. t[i][2] \in Nat /\ lo < t[i][2] /\ t[i][2] <= hi
      BY <1>2, <1>3, <2>2
    <3>2. t[i][2] <= hi + 1 /\ \A n \in 1..hi + 1 : n < t[i][2] => n # hi + 1
      BY <3>1
    <3> QED BY <1>3, <2>1, <2>2, <3>1, <3>2
  <2>3. ASSUME NEW i, i = Len(q) + 1
        PROVE  /\ lo < t[i][2] /\ t[i][2] <= hi + 1
               /\ \A j \in 1..Len(t) : j < i /\ t[j][1] = s => t[j][2] < t[i][2]
               /\ \A n \in 1..hi + 1 : lo < n /\ n < t[i][2] =>
                     \E j \in 1..Len(t) : j < i /\ t[j] = <<s, n>>
    <3>1. t[i] = e /\ t[i][2] = hi + 1 /\ lo < hi + 1
      BY <1>1, <1>6, <2>3
    <3>2. ASSUME NEW j \in 1..Len(t), j < i, t[j][1] = s PROVE t[j][2] < hi + 1
      <4>1. j \in 1..Len(q) /\ t[j][2] \in Nat
        BY <1>2, <2>3, <3>2
      <4>2. t[j][2] <= hi
        BY <1>3, <3>2, <4>1
      <4> QED BY <4>1, <4>2
    <3>3. ASSUME NEW n \in 1..hi + 1, lo < n, n < hi + 1
          PROVE  \E j \in 1..Len(t) : j < i /\ t[j] = <<s, n>>
      <4>1. n \in 1..hi
        BY <3>3
      <4>2. PICK j \in 1..Len(q) : q[j] = <<s, n>>
        BY <1>6, <3>3, <4>1 DEF Complete
      <4>3. j \in 1..Len(t) /\ j < i /\ t[j] = <<s, n>>
        BY <1>2, <2>3, <4>2
      <4> QED BY <4>3
    <3>4. lo < t[i][2] /\ t[i][2] <= hi + 1
      BY <3>1
    <3>5. \A j \in 1..Len(t) : j < i /\ t[j][1] = s => t[j][2] < t[i][2]
      BY <3>1, <3>2
    <3>6. \A n \in 1..hi + 1 : lo < n /\ n < t[i][2] => \E j \in 1..Len(t) : j < i /\ t[j] = <<s, n>>
      BY <3>1, <3>3
    <3> QED BY <3>4, <3>5, <3>6
  <2>4. Ordered(t, s, lo, hi + 1)
    <3> SUFFICES ASSUME NEW i \in 1..Len(t), t[i][1] = s
                 PROVE  /\ lo < t[i][2] /\ t[i][2] <= hi + 1
                        /\ \A j \in 1..Len(t) : j < i /\ t[j][1] = s => t[j][2] < t[i][2]
                        /\ \A n \in 1..hi + 1 : lo < n /\ n < t[i][2] =>
                              \E j \in 1..Len(t) : j < i /\ t[j] = <<s, n>>
      BY DEF Ordered
    <3>1. CASE i \in 1..Len(q)
      BY <2>2, <3>1
    <3>2. CASE i = Len(q) + 1
      BY <2>3, <3>2
    <3> QED BY <1>2, <3>1, <3>2
  <2>5. ASSUME NEW n \in 1..hi + 1, lo < n PROVE \E i \in 1..Len(t) : t[i] = <<s, n>>
    <3>1. CASE n = hi + 1
      BY <1>1, <1>2, <1>6, <3>1
    <3>2. CASE n # hi + 1
      BY <1>2, <1>6, <2>1, <2>5, <3>2 DEF Complete
    <3> QED BY <3>1, <3>2
  <2> QED BY <2>4, <2>5 DEF Complete
<1> QED BY <1>4, <1>5, <1>6 DEF t

\* A beginning is in order when the whole is.
LEMMA OrderedPrefix ==
    ASSUME NEW S, NEW q \in Seq(S), NEW r \in Seq(S), NEW s, NEW lo, NEW hi,
           Ordered(q \o r, s, lo, hi)
    PROVE  Ordered(q, s, lo, hi)
<1> DEFINE w == q \o r
<1>1. /\ Len(q) \in Nat /\ Len(r) \in Nat /\ Len(w) = Len(q) + Len(r)
      /\ \A i \in 1..Len(q) : i \in 1..Len(q) + Len(r) /\ w[i] = q[i]
  BY LenProperties, ConcatProperties
<1>2. Ordered(w, s, lo, hi)
  OBVIOUS
<1> HIDE DEF w
<1>3. \A i \in 1..Len(q), j \in 1..Len(w) : j < i => j \in 1..Len(q)
  BY <1>1
<1> SUFFICES ASSUME NEW i \in 1..Len(q), q[i][1] = s
             PROVE  /\ lo < q[i][2] /\ q[i][2] <= hi
                    /\ \A j \in 1..Len(q) : j < i /\ q[j][1] = s => q[j][2] < q[i][2]
                    /\ \A n \in 1..hi : lo < n /\ n < q[i][2] =>
                          \E j \in 1..Len(q) : j < i /\ q[j] = <<s, n>>
  BY DEF Ordered
<1>4. i \in 1..Len(w) /\ w[i] = q[i] /\ w[i][1] = s
  BY <1>1
<1>5. /\ lo < w[i][2] /\ w[i][2] <= hi
      /\ \A j \in 1..Len(w) : j < i /\ w[j][1] = s => w[j][2] < w[i][2]
      /\ \A n \in 1..hi : lo < n /\ n < w[i][2] =>
            \E j \in 1..Len(w) : j < i /\ w[j] = <<s, n>>
  BY <1>2, <1>4 DEF Ordered
<1>6. \A j \in 1..Len(q) : j \in 1..Len(w) /\ w[j] = q[j]
  BY <1>1
<1> QED BY <1>3, <1>4, <1>5, <1>6

\* What is not of the stream does not complete it.
LEMMA CompleteWithout ==
    ASSUME NEW S, NEW q \in Seq(S), NEW e \in S, NEW s, NEW lo, NEW hi,
           e[1] # s, Complete(Append(q, e), s, lo, hi)
    PROVE  Complete(q, s, lo, hi)
<1> DEFINE t == Append(q, e)
<1>1. /\ Len(q) \in Nat /\ Len(t) = Len(q) + 1
      /\ \A i \in 1..Len(q) : t[i] = q[i]
      /\ t[Len(q) + 1] = e
  BY LenProperties, AppendProperties
<1>2. Complete(t, s, lo, hi)
  OBVIOUS
<1> HIDE DEF t
<1> SUFFICES ASSUME NEW n \in 1..hi, lo < n PROVE \E i \in 1..Len(q) : q[i] = <<s, n>>
  BY DEF Complete
<1>3. PICK i \in 1..Len(t) : t[i] = <<s, n>>
  BY <1>2 DEF Complete
<1>4. i # Len(q) + 1
  BY <1>1, <1>3
<1> QED BY <1>1, <1>3, <1>4

\* Nothing is on its way when nothing has been read.
LEMMA OrderedNothing ==
    ASSUME NEW s, NEW lo \in Nat, NEW hi \in Nat
    PROVE  Ordered(<<>>, s, lo, hi) /\ (hi <= lo => Complete(<<>>, s, lo, hi))
BY DEF Ordered, Complete

LEMMA OrderedMore ==
    ASSUME NEW S, NEW q \in Seq(S), NEW s, NEW lo \in Nat, NEW hi \in Nat, NEW more \in Nat,
           \A x \in S : x = <<x[1], x[2]>> /\ x[2] \in Nat,
           hi <= more, Ordered(q, s, lo, hi)
    PROVE  Ordered(q, s, lo, more)
<1>1. \A i \in 1..Len(q) : q[i][2] \in Nat
  BY ElementOfSeq
<1> SUFFICES ASSUME NEW i \in 1..Len(q), q[i][1] = s
             PROVE  /\ lo < q[i][2] /\ q[i][2] <= more
                    /\ \A j \in 1..Len(q) : j < i /\ q[j][1] = s => q[j][2] < q[i][2]
                    /\ \A n \in 1..more : lo < n /\ n < q[i][2] =>
                          \E j \in 1..Len(q) : j < i /\ q[j] = <<s, n>>
  BY DEF Ordered
<1>2. /\ lo < q[i][2] /\ q[i][2] <= hi
      /\ \A j \in 1..Len(q) : j < i /\ q[j][1] = s => q[j][2] < q[i][2]
      /\ \A n \in 1..hi : lo < n /\ n < q[i][2] =>
            \E j \in 1..Len(q) : j < i /\ q[j] = <<s, n>>
  BY DEF Ordered
<1>3. q[i][2] \in Nat
  BY <1>1
<1>4. \A n \in 1..more : n < q[i][2] => n \in 1..hi
  BY <1>2, <1>3
<1>5. q[i][2] <= more
  BY <1>2, <1>3
<1> QED BY <1>2, <1>4, <1>5

LEMMA CountsAppend ==
    ASSUME NEW q \in Seq(Nat), Counts(q)
    PROVE  /\ Append(q, Len(q) + 1) \in Seq(Nat)
           /\ Len(Append(q, Len(q) + 1)) = Len(q) + 1
           /\ Counts(Append(q, Len(q) + 1))
<1>1. Len(q) \in Nat /\ Len(q) + 1 \in Nat
  BY LenProperties
<1> DEFINE t == Append(q, Len(q) + 1)
<1>2. /\ t \in Seq(Nat) /\ Len(t) = Len(q) + 1
      /\ \A i \in 1..Len(q) : t[i] = q[i]
      /\ t[Len(q) + 1] = Len(q) + 1
  BY <1>1, AppendProperties
<1> HIDE DEF t
<1>3. Counts(t)
  BY <1>1, <1>2 DEF Counts
<1> QED BY <1>2, <1>3 DEF t

-----------------------------------------------------------------------------
(* What a step leaves alone *)

\* The functions at a call.
LEMMA CallTypes ==
    ASSUME Types, NEW c \in Calls
    PROVE  /\ call[c] \in CallRecs
           /\ call[c].pc \in CallStates /\ call[c].sent \in 0..Inputs /\ call[c].sent \in Nat
           /\ call[c].frame \in {"none", "Input", "CloseShell"}
           /\ call[c].reading \in BOOLEAN /\ call[c].listening \in BOOLEAN
           /\ rx[c] \in Seq(Responses) /\ down[c] \in Seq(Responses)
           /\ up[c] \in Seq(Requests) /\ typed[c] \in Seq(Nat)
           /\ \A s \in Streams : got[c][s] \in Seq(Nat) /\ Len(got[c][s]) \in Nat
           /\ Len(typed[c]) \in Nat
<1>1. call[c] \in CallRecs
  BY DEF Types, HostTypes
<1>2. /\ call[c].pc \in CallStates /\ call[c].sent \in 0..Inputs
      /\ call[c].frame \in {"none", "Input", "CloseShell"}
      /\ call[c].reading \in BOOLEAN /\ call[c].listening \in BOOLEAN
  BY <1>1 DEF CallRecs
<1>3. call[c].sent \in Nat
  BY <1>2, BoundsAssumption
<1>4. /\ rx[c] \in Seq(Responses) /\ down[c] \in Seq(Responses)
      /\ up[c] \in Seq(Requests) /\ typed[c] \in Seq(Nat)
      /\ \A s \in Streams : got[c][s] \in Seq(Nat)
  BY DEF Types, HostTypes, WireTypes, GuestTypes
<1>5. \A q \in Seq(Nat) : Len(q) \in Nat
  BY LenProperties
<1> QED BY <1>1, <1>2, <1>3, <1>4, <1>5

LEMMA ChildTypes ==
    ASSUME Types, NEW c \in Calls
    PROVE  /\ child[c] \in ChildRecs
           /\ child[c].state \in ChildStates /\ child[c].held \in Nat
           /\ child[c].unread \in [Streams -> Nat] /\ child[c].read \in [Streams -> Nat]
           /\ \A s \in Streams : child[c].read[s] \in Nat /\ child[c].unread[s] \in Nat
<1>1. child[c] \in ChildRecs
  BY DEF Types, GuestTypes
<1>2. /\ child[c].state \in ChildStates /\ child[c].held \in Nat
      /\ child[c].unread \in [Streams -> Nat] /\ child[c].read \in [Streams -> Nat]
  BY <1>1 DEF ChildRecs
<1> QED BY <1>1, <1>2

LEMMA AgentTypes ==
    ASSUME Types
    PROVE  /\ agent.mode \in Modes /\ agent.conn \in Calls \cup {NoCall}
           /\ agent.len \in BOOLEAN /\ agent.msg \in Responses \cup Requests
           /\ agent.next \in {"request", "exec", "shell"}
BY DEF Types, GuestTypes, AgentRecs

\* A call that a step has nothing to do with.
Apart(d) ==
    /\ call'[d] = call[d] /\ rx'[d] = rx[d] /\ got'[d] = got[d]
    /\ up'[d] = up[d] /\ down'[d] = down[d]
    /\ child'[d] = child[d] /\ typed'[d] = typed[d]
    /\ d \in dropped' <=> d \in dropped
    /\ agent' = agent \/ (agent.conn # d /\ agent'.conn # d)

LEMMA ApartKept ==
    ASSUME NEW d \in Calls, Apart(d), Standing(d), Streaming(d)
    PROVE  Standing(d)' /\ Streaming(d)'
<1> USE DEF Apart
<1>1. HostOpen(d)' = HostOpen(d)
  BY DEF HostOpen
<1>2. Pending(d)' = Pending(d) /\ Typing(d)' = Typing(d) /\ First(d)' = First(d)
  BY DEF Pending, Typing, First
<1>3. Busy(d)' <=> Busy(d)
  BY DEF Busy, Runs
<1>4. Line(d)' = Line(d)
  BY <1>1, <1>2 DEF Line
<1>5. Opened(d)' <=> Opened(d)
  BY <1>2 DEF Opened
<1>6. Framed(d)' = Framed(d)
  BY DEF Framed
<1>7. Bounds(d)' /\ HostModes(d)' /\ Fresh(d)'
  BY DEF Standing, Bounds, HostModes, Fresh
<1>8. Opening(d)'
  BY <1>2, <1>5 DEF Standing, Opening
<1>9. Delivered(d)'
  BY <1>1, <1>4 DEF Streaming, Delivered
<1>10. LastComesLast(d)'
  BY <1>3, <1>4 DEF Streaming, LastComesLast
<1>11. Collected(d)' 
  BY <1>3 DEF Streaming, Collected
<1>12. Entered(d)'
  BY <1>2, <1>6 DEF Streaming, Entered
<1> QED BY <1>7, <1>8, <1>9, <1>10, <1>11, <1>12 DEF Standing, Streaming

-----------------------------------------------------------------------------
(* Steps of the host *)

\* A step of the tasks or the caller of c that leaves the agent alone.
AtHost(c) ==
    /\ UNCHANGED <<backlog, dropped, agent, child, typed>>
    /\ call[c].pc # "idle" /\ call'[c].pc # "idle"
    /\ \A d \in Calls \ {c} :
          /\ call'[d] = call[d] /\ rx'[d] = rx[d] /\ got'[d] = got[d]
          /\ up'[d] = up[d] /\ down'[d] = down[d]

LEMMA AtHostKept ==
    ASSUME IInv, NEW c \in Calls, AtHost(c), Types', Standing(c)', Streaming(c)'
    PROVE  IInv'
<1>1. ASSUME NEW d \in Calls PROVE Standing(d)' /\ Streaming(d)'
  <2>1. CASE d = c
    BY <2>1
  <2>2. CASE d # c
    <3>1. Apart(d)
      BY <2>2 DEF AtHost, Apart
    <3> QED BY <3>1, ApartKept DEF IInv
  <2> QED BY <2>1, <2>2
<1>2. AgentModes' /\ WriteModes'
  BY DEF IInv, AtHost, AgentModes, WriteModes, Busy, Runs
<1>3. Placed'
  <2>1. \A d \in Calls : call[d].pc # "idle" => call'[d].pc # "idle"
    BY DEF AtHost
  <2>2. agent.conn \in Calls \cup {NoCall} /\ \A i \in 1..Len(backlog) : backlog[i] \in Calls
    BY AgentTypes, EntryTypes DEF IInv, Types, WireTypes
  <2> QED BY <2>1, <2>2 DEF IInv, AtHost, Placed
<1> QED BY <1>1, <1>2, <1>3 DEF IInv

\* A step that changes one call changes its record.
LEMMA CallStep ==
    ASSUME Types, NEW c \in Calls, NEW r \in CallRecs, call' = [call EXCEPT ![c] = r]
    PROVE  /\ call' \in [Calls -> CallRecs]
           /\ call'[c] = r
           /\ \A d \in Calls \ {c} : call'[d] = call[d]
BY DEF Types, HostTypes

\* So does one that changes a channel or a connection.
LEMMA ChannelStep ==
    ASSUME NEW S, NEW f \in [Calls -> Seq(S)], NEW c \in Calls, NEW q \in Seq(S),
           NEW g, g = [f EXCEPT ![c] = q]
    PROVE  /\ g \in [Calls -> Seq(S)] /\ g[c] = q
           /\ \A d \in Calls \ {c} : g[d] = f[d]
OBVIOUS

LEMMA OpeningKept ==
    ASSUME NEW c \in Calls, Opening(c), UNCHANGED <<dropped, agent, child>>, up'[c] = up[c],
           call'[c].pc \in {"open", "closing"} => call[c].pc \in {"open", "closing"}
    PROVE  Opening(c)'
<1>1. First(c)' = First(c)
  BY DEF First
<1>2. Opened(c)' <=> Opened(c)
  BY <1>1 DEF Opened
<1> QED BY <1>1, <1>2 DEF Opening

LEMMA EnteredKept ==
    ASSUME NEW c \in Calls, Entered(c), UNCHANGED <<dropped, agent, child, typed>>, up'[c] = up[c],
           call'[c].sent = call[c].sent, call'[c].frame = call[c].frame,
           call'[c].pc \in {"open", "closing"} => call[c].pc \in {"open", "closing"}
    PROVE  Entered(c)'
<1>1. Typing(c)' = Typing(c) /\ Framed(c)' = Framed(c)
  BY DEF Typing, Framed
<1> QED BY <1>1 DEF Entered

\* What is on its way stays there.
LEMMA StreamKept ==
    ASSUME NEW c \in Calls, Delivered(c), LastComesLast(c), Collected(c),
           UNCHANGED <<agent, child>>, got'[c] = got[c],
           call'[c].listening => call[c].listening,
           call'[c].pc = "answered" => call[c].pc = "answered",
           call[c].listening =>
              /\ Line(c)' = Line(c)
              /\ HostOpen(c)' => HostOpen(c)
              /\ \A i \in 1..Len(rx'[c]) : rx'[c][i] # ShellClosed
    PROVE  Delivered(c)' /\ LastComesLast(c)' /\ Collected(c)'
<1>1. Busy(c)' <=> Busy(c)
  BY DEF Busy, Runs
<1>2. Delivered(c)'
  BY DEF Delivered
<1>3. LastComesLast(c)'
  BY <1>1 DEF LastComesLast
<1>4. Collected(c)'
  BY <1>1 DEF Collected
<1> QED BY <1>2, <1>3, <1>4

LEMMA DropSenderKeeps ==
    ASSUME IInv, NEW c \in Calls, DropSender(c) PROVE IInv'
<1> DEFINE r == [call[c] EXCEPT !.pc = "closing"]
<1>1. /\ call[c].pc = "open" /\ call' = [call EXCEPT ![c] = r]
      /\ UNCHANGED <<rx, got, up, down, backlog, dropped, agent, child, typed>>
  BY DEF DropSender
<1>2. /\ r \in CallRecs /\ r.pc = "closing"
      /\ r.reading = call[c].reading /\ r.listening = call[c].listening
      /\ r.frame = call[c].frame /\ r.sent = call[c].sent
  BY CallTypes DEF IInv, CallRecs, CallStates
<1> HIDE DEF r
<1>3. /\ call' \in [Calls -> CallRecs] /\ call'[c] = r
      /\ \A d \in Calls \ {c} : call'[d] = call[d]
  BY <1>1, <1>2, CallStep DEF IInv
<1>4. Types'
  BY <1>1, <1>3 DEF IInv, Types, HostTypes, WireTypes, GuestTypes
<1>5. AtHost(c)
  BY <1>1, <1>2, <1>3 DEF AtHost
<1>6. HostOpen(c)' /\ HostOpen(c) /\ Line(c)' = Line(c)
  BY <1>1, <1>2, <1>3 DEF HostOpen, Line, Pending
<1>7. Bounds(c)' /\ HostModes(c)' /\ Fresh(c)'
  BY <1>1, <1>2, <1>3 DEF IInv, Standing, Bounds, HostModes, Fresh
<1>8. Opening(c)'
  BY <1>1, <1>2, <1>3, OpeningKept DEF IInv, Standing
<1>9. Delivered(c)' /\ LastComesLast(c)' /\ Collected(c)'
  <2>1. call[c].listening => \A i \in 1..Len(rx'[c]) : rx'[c][i] # ShellClosed
    BY <1>1 DEF IInv, Streaming, LastComesLast
  <2> QED BY <1>1, <1>2, <1>3, <1>6, <2>1, StreamKept DEF IInv, Streaming
<1>10. Entered(c)'
  BY <1>1, <1>2, <1>3, EnteredKept DEF IInv, Streaming
<1> QED BY <1>4, <1>5, <1>7, <1>8, <1>9, <1>10, AtHostKept DEF Standing, Streaming

\* The responses on their way.
LEMMA LineTypes ==
    ASSUME Types, WriteModes, NEW c \in Calls
    PROVE  /\ Pending(c) \in Seq(Responses) /\ down[c] \o Pending(c) \in Seq(Responses)
           /\ rx[c] \o (down[c] \o Pending(c)) \in Seq(Responses)
           /\ Line(c) \in Seq(Responses)
<1>1. Pending(c) \in Seq(Responses)
  BY EmptyTypes, OneTypes DEF Pending, WriteModes
<1> QED BY <1>1, CallTypes, ConcatProperties DEF Line

\* A host that has stopped reading keeps what it has taken from the connection.
LEMMA StreamCut ==
    ASSUME NEW c \in Calls, Types, WriteModes, HostModes(c),
           Delivered(c), LastComesLast(c), Collected(c),
           UNCHANGED <<agent, child>>, rx'[c] = rx[c], got'[c] = got[c],
           c \in Shells, ~HostOpen(c)',
           call'[c].listening => call[c].listening,
           call'[c].pc = "answered" => call[c].pc = "answered"
    PROVE  Delivered(c)' /\ LastComesLast(c)' /\ Collected(c)'
<1>1. Busy(c)' <=> Busy(c)
  BY DEF Busy, Runs
<1>2. Line(c)' = rx[c]
  BY DEF Line
<1> DEFINE r == IF HostOpen(c) THEN down[c] \o Pending(c) ELSE <<>>
<1>3. r \in Seq(Responses) /\ rx[c] \in Seq(Responses) /\ Line(c) = rx[c] \o r
  BY LineTypes, CallTypes, EmptyTypes, ConcatEmptySeq DEF Line
<1> HIDE DEF r
<1>4. \A i \in 1..Len(rx[c]) :
         i \in 1..Len(Line(c)) /\ Line(c)[i] = rx[c][i] /\ (i = Len(Line(c)) => i = Len(rx[c]))
  <2>1. /\ Len(rx[c]) \in Nat /\ Len(r) \in Nat /\ Len(Line(c)) = Len(rx[c]) + Len(r)
        /\ \A i \in 1..Len(rx[c]) + Len(r) :
              (rx[c] \o r)[i] = IF i <= Len(rx[c]) THEN rx[c][i] ELSE r[i - Len(rx[c])]
    BY <1>3, LenProperties, ConcatProperties
  <2> QED BY <1>3, <2>1
<1>5. ASSUME call[c].listening, NEW i \in 1..Len(rx[c]), rx[c][i] \in {Exit, ShellClosed}
      PROVE  /\ i = Len(rx[c]) /\ ~Busy(c)
             /\ rx[c][i] # Exit
             /\ rx[c][i] = ShellClosed => child[c].state = "reaped"
  BY <1>4, <1>5, CallsAssumption DEF LastComesLast, Calls
<1>6. call[c].listening => ~EndsInExit(rx[c])
  BY <1>3, <1>5, EntryTypes DEF EndsInExit
<1>7. ASSUME call[c].listening, NEW s \in Streams
      PROVE  Ordered(rx[c], s, Len(got[c][s]), child[c].read[s])
  BY <1>3, <1>7, OrderedPrefix DEF Delivered
<1>8. Delivered(c)'
  BY <1>2, <1>6, <1>7 DEF Delivered
<1>9. LastComesLast(c)'
  BY <1>1, <1>2, <1>5 DEF LastComesLast
<1>10. Collected(c)'
  BY <1>1 DEF Collected
<1> QED BY <1>8, <1>9, <1>10

\* The caller of close_shell, and a writing task that ends, leave an input unsent at most.
LEMMA EnteredAbandoned ==
    ASSUME NEW c \in Calls, Types, AgentModes, Entered(c), HostModes(c),
           UNCHANGED <<dropped, agent, child, typed>>, up'[c] = up[c],
           call'[c].sent = call[c].sent, call'[c].frame = "none",
           call'[c].pc \notin {"open", "closing"}
    PROVE  Entered(c)'
<1>1. Typing(c)' = Typing(c) /\ Framed(c)' = call[c].sent
  BY DEF Typing, Framed
<1>2. Framed(c) \in Nat /\ Framed(c) <= call[c].sent /\ call[c].sent \in Nat
  BY CallTypes DEF Framed, HostModes
<1>3. Typing(c) \o up[c] \in Seq(Requests)
  BY CallTypes, EmptyTypes, OneTypes, ConcatProperties DEF Typing, AgentModes
<1>4. ASSUME Ordered(Typing(c) \o up[c], "Input", Len(typed[c]), Framed(c))
      PROVE  Ordered(Typing(c) \o up[c], "Input", Len(typed[c]), call[c].sent)
  <2>1. Len(typed[c]) \in Nat
    BY CallTypes
  <2> QED BY <1>2, <1>3, <1>4, <2>1, RequestTypes, OrderedMore
<1> QED BY <1>1, <1>2, <1>4, CallTypes DEF Entered

LEMMA CloseShellKeeps ==
    ASSUME IInv, NEW c \in Calls, CloseShell(c) PROVE IInv'
<1> DEFINE r == [call[c] EXCEPT !.pc = "over", !.frame = "none", !.reading = FALSE]
<1>1. /\ call[c].pc = "open" /\ call' = [call EXCEPT ![c] = r] /\ Leave(c, down[c])
      /\ UNCHANGED <<rx, got, up, backlog, dropped, agent, child, typed>>
  BY DEF CloseShell
<1>2. /\ r \in CallRecs /\ r.pc = "over" /\ r.reading = FALSE
      /\ r.listening = call[c].listening /\ r.frame = "none" /\ r.sent = call[c].sent
  BY CallTypes DEF IInv, CallRecs, CallStates
<1> HIDE DEF r
<1>3. /\ call' \in [Calls -> CallRecs] /\ call'[c] = r
      /\ \A d \in Calls \ {c} : call'[d] = call[d]
  BY <1>1, <1>2, CallStep DEF IInv
<1>4. ~HostOpen(c)' /\ c \in Shells
  BY <1>1, <1>2, <1>3 DEF HostOpen, IInv, Standing, HostModes
<1>5. /\ down' \in [Calls -> Seq(Responses)] /\ down'[c] = <<>>
      /\ \A d \in Calls \ {c} : down'[d] = down[d]
  BY <1>1, <1>4, EmptyTypes, ChannelStep DEF Leave, IInv, Types, WireTypes
<1>6. Types'
  BY <1>1, <1>3, <1>5 DEF IInv, Types, HostTypes, WireTypes, GuestTypes
<1>7. AtHost(c)
  BY <1>1, <1>2, <1>3, <1>5 DEF AtHost
<1>8. Bounds(c)' /\ HostModes(c)' /\ Fresh(c)'
  <2>1. Len(down'[c]) <= Buffer
    BY <1>5, BoundsAssumption
  <2> QED BY <1>1, <1>2, <1>3, <2>1 DEF IInv, Standing, Bounds, HostModes, Fresh
<1>9. Opening(c)'
  BY <1>1, <1>2, <1>3, OpeningKept DEF IInv, Standing
<1>10. Delivered(c)' /\ LastComesLast(c)' /\ Collected(c)'
  BY <1>1, <1>2, <1>3, <1>4, StreamCut DEF IInv, Standing, Streaming
<1>11. Entered(c)'
  BY <1>1, <1>2, <1>3, EnteredAbandoned DEF IInv, Standing, Streaming
<1> QED BY <1>6, <1>7, <1>8, <1>9, <1>10, <1>11, AtHostKept DEF Standing, Streaming

LEMMA ReceiveEndKeeps ==
    ASSUME IInv, NEW c \in Calls, ReceiveEnd(c) PROVE IInv'
<1> DEFINE r == [call[c] EXCEPT !.pc = "cut", !.listening = FALSE]
<1>1. /\ call[c].pc = "waiting" /\ call' = [call EXCEPT ![c] = r]
      /\ UNCHANGED <<rx, got, up, down, backlog, dropped, agent, child, typed>>
  BY DEF ReceiveEnd
<1>2. /\ r \in CallRecs /\ r.pc = "cut" /\ r.reading = call[c].reading
      /\ r.listening = FALSE /\ r.frame = call[c].frame /\ r.sent = call[c].sent
  BY CallTypes DEF IInv, CallRecs, CallStates
<1> HIDE DEF r
<1>3. /\ call' \in [Calls -> CallRecs] /\ call'[c] = r
      /\ \A d \in Calls \ {c} : call'[d] = call[d]
  BY <1>1, <1>2, CallStep DEF IInv
<1>4. Types'
  BY <1>1, <1>3 DEF IInv, Types, HostTypes, WireTypes, GuestTypes
<1>5. AtHost(c)
  BY <1>1, <1>2, <1>3 DEF AtHost
<1>6. Bounds(c)' /\ HostModes(c)' /\ Fresh(c)'
  BY <1>1, <1>2, <1>3 DEF IInv, Standing, Bounds, HostModes, Fresh
<1>7. Opening(c)'
  BY <1>1, <1>2, <1>3, OpeningKept DEF IInv, Standing
<1>8. Delivered(c)' /\ LastComesLast(c)'
  BY <1>2, <1>3 DEF Delivered, LastComesLast
<1>9. Collected(c)'
  BY <1>1, <1>2, <1>3 DEF IInv, Streaming, Collected
<1>10. Entered(c)'
  BY <1>1, <1>2, <1>3, EnteredKept DEF IInv, Streaming
<1> QED BY <1>4, <1>5, <1>6, <1>7, <1>8, <1>9, <1>10, AtHostKept DEF Standing, Streaming

LEMMA DropReceiverKeeps ==
    ASSUME IInv, NEW c \in Calls, DropReceiver(c) PROVE IInv'
<1> DEFINE after == IF call[c].pc = "waiting" THEN "over" ELSE call[c].pc
           r == [call[c] EXCEPT !.listening = FALSE, !.pc = after]
<1>1. /\ call[c].listening /\ call' = [call EXCEPT ![c] = r]
      /\ rx' = [rx EXCEPT ![c] = <<>>]
      /\ got' = [got EXCEPT ![c] = [s \in Streams |-> <<>>]]
      /\ UNCHANGED <<up, down, backlog, dropped, agent, child, typed>>
  BY DEF DropReceiver
<1>2. /\ r \in CallRecs /\ r.pc = after /\ r.reading = call[c].reading
      /\ r.listening = FALSE /\ r.frame = call[c].frame /\ r.sent = call[c].sent
  BY CallTypes DEF IInv, CallRecs, CallStates
<1> HIDE DEF r
<1>3. /\ call' \in [Calls -> CallRecs] /\ call'[c] = r
      /\ \A d \in Calls \ {c} : call'[d] = call[d]
  BY <1>1, <1>2, CallStep DEF IInv
<1>4. call[c].pc \notin {"idle", "answered"} /\ after \notin {"idle", "answered"}
  BY <1>1 DEF IInv, Standing, Fresh, HostModes, NewCall
<1>5. /\ rx' \in [Calls -> Seq(Responses)] /\ rx'[c] = <<>>
      /\ \A d \in Calls \ {c} : rx'[d] = rx[d]
  BY <1>1, EmptyTypes, ChannelStep DEF IInv, Types, HostTypes
<1>6. /\ got' \in [Calls -> [Streams -> Seq(Nat)]] /\ \A s \in Streams : got'[c][s] = <<>>
      /\ \A d \in Calls \ {c} : got'[d] = got[d]
  <2>1. [s \in Streams |-> <<>>] \in [Streams -> Seq(Nat)]
    BY EmptyTypes
  <2> QED BY <1>1, <2>1 DEF IInv, Types, HostTypes
<1>7. Types'
  BY <1>1, <1>3, <1>5, <1>6 DEF IInv, Types, HostTypes, WireTypes, GuestTypes
<1>8. AtHost(c)
  BY <1>1, <1>2, <1>3, <1>4, <1>5, <1>6 DEF AtHost
<1>9. Bounds(c)' /\ HostModes(c)' /\ Fresh(c)'
  <2>1. Len(rx'[c]) <= Capacity
    BY <1>5, BoundsAssumption
  <2> QED BY <1>1, <1>2, <1>3, <1>4, <2>1 DEF IInv, Standing, Bounds, HostModes, Fresh
<1>10. Opening(c)'
  BY <1>1, <1>2, <1>3, OpeningKept DEF IInv, Standing
<1>11. Delivered(c)' /\ LastComesLast(c)'
  BY <1>2, <1>3 DEF Delivered, LastComesLast
<1>12. Collected(c)'
  <2>1. \A s \in Streams : Len(got'[c][s]) = 0 /\ Counts(got'[c][s]) /\ child'[c].read[s] \in Nat
    BY <1>1, <1>6, ChildTypes DEF Counts, IInv
  <2> QED BY <1>2, <1>3, <1>4, <2>1 DEF Collected
<1>13. Entered(c)'
  BY <1>1, <1>2, <1>3, EnteredKept DEF IInv, Streaming
<1> QED BY <1>7, <1>8, <1>9, <1>10, <1>11, <1>12, <1>13, AtHostKept DEF Standing, Streaming

LEMMA ReadingEndsKeeps ==
    ASSUME IInv, NEW c \in Calls, ReadingEnds(c) PROVE IInv'
<1> DEFINE r == [call[c] EXCEPT !.reading = FALSE]
<1>1. /\ call[c].reading /\ down[c] = <<>> /\ c \in dropped
      /\ call' = [call EXCEPT ![c] = r]
      /\ UNCHANGED <<rx, got, up, down, backlog, dropped, agent, child, typed>>
  BY DEF ReadingEnds
<1>2. /\ r \in CallRecs /\ r.pc = call[c].pc /\ r.reading = FALSE
      /\ r.listening = call[c].listening /\ r.frame = call[c].frame /\ r.sent = call[c].sent
  BY CallTypes DEF IInv, CallRecs, CallStates
<1> HIDE DEF r
<1>3. /\ call' \in [Calls -> CallRecs] /\ call'[c] = r
      /\ \A d \in Calls \ {c} : call'[d] = call[d]
  BY <1>1, <1>2, CallStep DEF IInv
<1>4. call[c].pc # "idle"
  BY <1>1 DEF IInv, Standing, Fresh
<1>5. Types'
  BY <1>1, <1>3 DEF IInv, Types, HostTypes, WireTypes, GuestTypes
<1>6. AtHost(c)
  BY <1>1, <1>2, <1>3, <1>4 DEF AtHost
<1>7. HostOpen(c) /\ Line(c)' = rx[c] /\ Line(c) = rx[c]
  <2>1. Pending(c) = <<>> /\ Pending(c)' = <<>>
    BY <1>1 DEF Pending, IInv, Placed
  <2>2. rx[c] \o (<<>> \o <<>>) = rx[c]
    BY CallTypes, ConcatEmptySeq, EmptyTypes DEF IInv
  <2> QED BY <1>1, <2>1, <2>2 DEF HostOpen, Line
<1>8. Bounds(c)' /\ HostModes(c)' /\ Fresh(c)'
  BY <1>1, <1>2, <1>3, <1>4 DEF IInv, Standing, Bounds, HostModes, Fresh
<1>9. Opening(c)'
  BY <1>1, <1>2, <1>3, OpeningKept DEF IInv, Standing
<1>10. Delivered(c)' /\ LastComesLast(c)' /\ Collected(c)'
  <2>1. call[c].listening => \A i \in 1..Len(rx'[c]) : rx'[c][i] # ShellClosed
    BY <1>1 DEF IInv, Streaming, LastComesLast
  <2> QED BY <1>1, <1>2, <1>3, <1>7, <2>1, StreamKept DEF IInv, Streaming
<1>11. Entered(c)'
  BY <1>1, <1>2, <1>3, EnteredKept DEF IInv, Streaming
<1> QED BY <1>5, <1>6, <1>8, <1>9, <1>10, <1>11, AtHostKept DEF Standing, Streaming

\* What becomes of the responses when the writing task of a shell ends or goes on.
LEMMA WriterStream ==
    ASSUME IInv, NEW c \in Calls, c \in Shells, HostOpen(c),
           UNCHANGED <<rx, got, agent, child>>, Leave(c, down[c]),
           call'[c].listening = call[c].listening, call'[c].pc # "answered"
    PROVE  /\ down' \in [Calls -> Seq(Responses)] /\ Len(down'[c]) <= Buffer
           /\ \A d \in Calls \ {c} : down'[d] = down[d]
           /\ Delivered(c)' /\ LastComesLast(c)' /\ Collected(c)'
<1>1. down \in [Calls -> Seq(Responses)] /\ Len(down[c]) <= Buffer
  BY DEF IInv, Types, WireTypes, Standing, Bounds
<1>2. CASE HostOpen(c)'
  <2>1. down' = [down EXCEPT ![c] = down[c]]
    BY <1>2 DEF Leave
  <2>2. down' = down
    BY <1>1, <2>1
  <2>3. Line(c)' = Line(c)
    BY <1>2, <2>2 DEF Line, Pending
  <2>4. call[c].listening => \A i \in 1..Len(rx'[c]) : rx'[c][i] # ShellClosed
    BY DEF IInv, Streaming, LastComesLast
  <2>5. Delivered(c)' /\ LastComesLast(c)' /\ Collected(c)'
    BY <2>3, <2>4, StreamKept DEF IInv, Streaming
  <2> QED BY <1>1, <2>2, <2>5
<1>3. CASE ~HostOpen(c)'
  <2>1. /\ down' \in [Calls -> Seq(Responses)] /\ down'[c] = <<>>
        /\ \A d \in Calls \ {c} : down'[d] = down[d]
    BY <1>1, <1>3, EmptyTypes, ChannelStep DEF Leave
  <2>2. Delivered(c)' /\ LastComesLast(c)' /\ Collected(c)'
    BY <1>3, StreamCut DEF IInv, Standing, Streaming
  <2>3. Len(down'[c]) <= Buffer
    BY <2>1, BoundsAssumption
  <2> QED BY <2>1, <2>2, <2>3
<1> QED BY <1>2, <1>3

LEMMA WriteFailsKeeps ==
    ASSUME IInv, NEW c \in Calls, WriteFails(c) PROVE IInv'
<1> DEFINE r == [call[c] EXCEPT !.frame = "none", !.pc = "over"]
<1>1. /\ c \in dropped
      /\ call[c].frame # "none" \/ call[c].pc \in {"open", "closing"}
      /\ call' = [call EXCEPT ![c] = r] /\ Leave(c, down[c])
      /\ UNCHANGED <<rx, got, up, backlog, dropped, agent, child, typed>>
  BY DEF WriteFails
<1>2. /\ r \in CallRecs /\ r.pc = "over" /\ r.reading = call[c].reading
      /\ r.listening = call[c].listening /\ r.frame = "none" /\ r.sent = call[c].sent
  BY CallTypes DEF IInv, CallRecs, CallStates
<1> HIDE DEF r
<1>3. /\ call' \in [Calls -> CallRecs] /\ call'[c] = r
      /\ \A d \in Calls \ {c} : call'[d] = call[d]
  BY <1>1, <1>2, CallStep DEF IInv
<1>4. call[c].pc \in {"open", "closing"} /\ c \in Shells /\ HostOpen(c)
  BY <1>1 DEF IInv, Standing, HostModes, HostOpen
<1>5. /\ down' \in [Calls -> Seq(Responses)] /\ Len(down'[c]) <= Buffer
      /\ \A d \in Calls \ {c} : down'[d] = down[d]
      /\ Delivered(c)' /\ LastComesLast(c)' /\ Collected(c)'
  BY <1>1, <1>2, <1>3, <1>4, WriterStream
<1>6. Types'
  BY <1>1, <1>3, <1>5 DEF IInv, Types, HostTypes, WireTypes, GuestTypes
<1>7. AtHost(c)
  BY <1>1, <1>2, <1>3, <1>4, <1>5 DEF AtHost
<1>8. Bounds(c)' /\ HostModes(c)' /\ Fresh(c)'
  BY <1>1, <1>2, <1>3, <1>4, <1>5 DEF IInv, Standing, Bounds, HostModes, Fresh
<1>9. Opening(c)'
  BY <1>1, <1>2, <1>3, OpeningKept DEF IInv, Standing
<1>10. Entered(c)'
  BY <1>1, <1>2, <1>3, EnteredAbandoned DEF IInv, Standing, Streaming
<1> QED BY <1>5, <1>6, <1>7, <1>8, <1>9, <1>10, AtHostKept DEF Standing, Streaming

\* A request that is added while the writing task runs comes after the one that opens the
\* shell.
LEMMA OpeningAppend ==
    ASSUME NEW c \in Calls, Types, Opening(c), c \notin dropped, UNCHANGED <<dropped, agent, child>>,
           call[c].pc \in {"open", "closing"},
           NEW e \in Requests, e[1] \notin {"Exec", "OpenShell"}, up'[c] = Append(up[c], e)
    PROVE  Opening(c)'
<1>1. /\ up[c] \in Seq(Requests) /\ Len(up[c]) \in Nat /\ Len(up'[c]) = Len(up[c]) + 1
      /\ \A i \in 1..Len(up[c]) : up'[c][i] = up[c][i]
      /\ up'[c][Len(up[c]) + 1] = e
  BY CallTypes, LenProperties, AppendProperties
<1>2. First(c)' = First(c) /\ First(c) \in {1, 2}
  BY DEF First
<1>3. Opened(c)
  BY DEF Opening
<1>4. Opened(c)'
  <2>1. CASE child[c].state # "none"
    BY <2>1 DEF Opened
  <2>2. CASE child[c].state = "none"
    <3>1. /\ First(c) <= Len(up[c]) /\ up[c][First(c)] = <<Kind(c), 0>>
          /\ First(c) = 2 => up[c][1] = Length
      BY <1>3, <2>2 DEF Opened
    <3>2. First(c) \in 1..Len(up[c]) /\ 1 \in 1..Len(up[c]) /\ First(c) <= Len(up'[c])
      BY <1>1, <1>2, <3>1
    <3> QED BY <1>1, <1>2, <3>1, <3>2 DEF Opened
  <2> QED BY <2>1, <2>2
<1>5. ASSUME NEW i \in 1..Len(up'[c]), up'[c][i][1] \in {"Exec", "OpenShell"}
      PROVE  child[c].state = "none" /\ i = First(c)
  <2>1. i \in 1..Len(up[c])
    BY <1>1, <1>5
  <2> QED BY <1>1, <1>5, <2>1 DEF Opening
<1> QED BY <1>2, <1>4, <1>5 DEF Opening

\* What the writing task adds is the next input, or none.
LEMMA EnteredAppend ==
    ASSUME NEW c \in Calls, Types, AgentModes, HostModes(c), Entered(c),
           UNCHANGED <<dropped, agent, child, typed>>,
           call[c].pc \in {"open", "closing"},
           NEW e \in Requests, up'[c] = Append(up[c], e),
           \/ e[1] # "Input" /\ Framed(c)' = Framed(c)
           \/ e = <<"Input", Framed(c) + 1>> /\ Framed(c)' = Framed(c) + 1
    PROVE  Entered(c)'
<1>1. /\ Framed(c) \in Nat /\ Len(typed[c]) \in Nat
  BY CallTypes DEF Framed, HostModes
<1> DEFINE q == Typing(c) \o up[c]
<1>2. Typing(c) \in Seq(Requests) /\ up[c] \in Seq(Requests)
  BY CallTypes, EmptyTypes, OneTypes DEF Typing, AgentModes
<1>3. Typing(c)' = Typing(c)
  BY DEF Typing
<1>4. q \in Seq(Requests) /\ Typing(c) \o up'[c] = Append(q, e)
  BY <1>2, ConcatProperties, AppendMove, SMTT(30)
<1> HIDE DEF q
<1>5. Len(typed[c]) <= Framed(c) /\ Counts(typed[c]) /\ Len(typed[c]) <= Framed(c)'
  BY <1>1 DEF Entered
<1>6. ASSUME c \notin dropped, child[c].state # "reaped"
      PROVE  /\ Ordered(Append(q, e), "Input", Len(typed[c]), Framed(c)')
             /\ Complete(Append(q, e), "Input", Len(typed[c]), Framed(c)')
  <2>1. /\ Ordered(q, "Input", Len(typed[c]), Framed(c))
        /\ Complete(q, "Input", Len(typed[c]), Framed(c))
    BY <1>6 DEF Entered, q
  <2>2. \A x \in Requests : x = <<x[1], x[2]>> /\ x[2] \in Nat
    BY RequestTypes
  <2> DEFINE lo == Len(typed[c])
             hi == Framed(c)
  <2>3. lo \in Nat /\ hi \in Nat /\ lo <= hi
    BY <1>1, <1>5
  <2> HIDE DEF lo, hi
  <2>4. Ordered(q, "Input", lo, hi) /\ Complete(q, "Input", lo, hi)
    BY <2>1 DEF lo, hi
  <2>5. /\ e[1] # "Input" =>
              /\ Ordered(Append(q, e), "Input", lo, hi)
              /\ Complete(Append(q, e), "Input", lo, hi)
        /\ e = <<"Input", hi + 1>> =>
              /\ Ordered(Append(q, e), "Input", lo, hi + 1)
              /\ Complete(Append(q, e), "Input", lo, hi + 1)
    BY <1>4, <2>2, <2>3, <2>4, OrderedAppend
  <2> QED BY <2>5 DEF lo, hi
<1> QED BY <1>3, <1>4, <1>5, <1>6 DEF Entered

LEMMA WriteLengthKeeps ==
    ASSUME IInv, NEW c \in Calls, WriteLength(c) PROVE IInv'
<1> DEFINE input == [call[c] EXCEPT !.frame = "Input", !.sent = call[c].sent + 1]
           close == [call[c] EXCEPT !.frame = "CloseShell"]
<1>1. /\ call[c].frame = "none" /\ c \notin dropped
      /\ \/ call[c].pc = "open" /\ call[c].sent < Inputs /\ call' = [call EXCEPT ![c] = input]
         \/ call[c].pc = "closing" /\ call' = [call EXCEPT ![c] = close]
      /\ up' = [up EXCEPT ![c] = Append(up[c], Length)]
      /\ UNCHANGED <<rx, got, down, backlog, dropped, agent, child, typed>>
  BY DEF WriteLength
<1>2. PICK r \in CallRecs :
         /\ call' = [call EXCEPT ![c] = r] /\ r.pc = call[c].pc /\ r.reading = call[c].reading
         /\ r.listening = call[c].listening
         /\ \/ r.frame = "Input" /\ r.sent = call[c].sent + 1
            \/ r.frame = "CloseShell" /\ r.sent = call[c].sent
  <2>1. CASE call[c].sent < Inputs /\ call' = [call EXCEPT ![c] = input]
    <3>1. call[c].sent + 1 \in 0..Inputs
      BY <2>1, CallTypes, BoundsAssumption DEF IInv
    <3>2. /\ input \in CallRecs /\ input.pc = call[c].pc /\ input.reading = call[c].reading
          /\ input.listening = call[c].listening
          /\ input.frame = "Input" /\ input.sent = call[c].sent + 1
      BY <3>1, CallTypes DEF IInv, CallRecs
    <3> HIDE DEF input
    <3> QED BY <2>1, <3>2
  <2>2. CASE call' = [call EXCEPT ![c] = close]
    <3>1. /\ close \in CallRecs /\ close.pc = call[c].pc /\ close.reading = call[c].reading
          /\ close.listening = call[c].listening
          /\ close.frame = "CloseShell" /\ close.sent = call[c].sent
      BY CallTypes DEF IInv, CallRecs
    <3> HIDE DEF close
    <3> QED BY <2>2, <3>1
  <2> QED BY <1>1, <2>1, <2>2
<1>3. /\ call' \in [Calls -> CallRecs] /\ call'[c] = r
      /\ \A d \in Calls \ {c} : call'[d] = call[d]
  BY <1>2, CallStep DEF IInv
<1>4. call[c].pc \in {"open", "closing"} /\ c \in Shells /\ c \notin Execs
  BY <1>1, CallsAssumption DEF IInv, Standing, HostModes
<1>5. /\ up' \in [Calls -> Seq(Requests)] /\ up'[c] = Append(up[c], Length)
      /\ \A d \in Calls \ {c} : up'[d] = up[d]
  <2>1. Append(up[c], Length) \in Seq(Requests)
    BY CallTypes, RequestMarks, AppendProperties DEF IInv
  <2> QED BY <1>1, <2>1, ChannelStep DEF IInv, Types, WireTypes
<1>6. Types'
  BY <1>1, <1>3, <1>5 DEF IInv, Types, HostTypes, WireTypes, GuestTypes
<1>7. AtHost(c)
  BY <1>1, <1>2, <1>3, <1>4, <1>5 DEF AtHost
<1>8. Bounds(c)' /\ HostModes(c)' /\ Fresh(c)'
  <2>1. r.frame = "Input" => r.sent > 0
    BY <1>2, CallTypes DEF IInv
  <2>2. Bounds(c)'
    BY <1>1 DEF IInv, Standing, Bounds
  <2>3. HostModes(c)'
    BY <1>2, <1>3, <1>4, <2>1 DEF HostModes
  <2>4. Fresh(c)'
    BY <1>1, <1>2, <1>3, <1>4 DEF IInv, Standing, Fresh
  <2> QED BY <2>2, <2>3, <2>4
<1>9. Opening(c)'
  BY <1>1, <1>4, <1>5, RequestMarks, OpeningAppend DEF IInv, Standing
<1>10. Delivered(c)' /\ LastComesLast(c)' /\ Collected(c)'
  <2>1. HostOpen(c) /\ HostOpen(c)' /\ Line(c)' = Line(c)
    BY <1>1, <1>2, <1>3, <1>4 DEF HostOpen, Line, Pending
  <2>2. call[c].listening => \A i \in 1..Len(rx'[c]) : rx'[c][i] # ShellClosed
    BY <1>1 DEF IInv, Streaming, LastComesLast
  <2> QED BY <1>1, <1>2, <1>3, <1>4, <2>1, <2>2, StreamKept DEF IInv, Streaming
<1>11. Entered(c)'
  <2>1. Framed(c)' = Framed(c)
    BY <1>1, <1>2, <1>3, CallTypes DEF Framed, IInv
  <2> QED BY <1>1, <1>4, <1>5, <2>1, RequestMarks, EnteredAppend DEF IInv, Standing, Streaming
<1> QED BY <1>6, <1>7, <1>8, <1>9, <1>10, <1>11, AtHostKept DEF Standing, Streaming

LEMMA WriteBodyKeeps ==
    ASSUME IInv, NEW c \in Calls, WriteBody(c) PROVE IInv'
<1> DEFINE body == <<call[c].frame, call[c].sent>>
           after == IF call[c].frame = "CloseShell" THEN "over" ELSE call[c].pc
           r == [call[c] EXCEPT !.frame = "none", !.pc = after]
<1>1. /\ call[c].frame # "none" /\ c \notin dropped
      /\ up' = [up EXCEPT ![c] = Append(up[c], body)]
      /\ call' = [call EXCEPT ![c] = r] /\ Leave(c, down[c])
      /\ UNCHANGED <<rx, got, backlog, dropped, agent, child, typed>>
  BY DEF WriteBody
<1>2. /\ r \in CallRecs /\ r.pc = after /\ r.reading = call[c].reading
      /\ r.listening = call[c].listening /\ r.frame = "none" /\ r.sent = call[c].sent
  BY CallTypes DEF IInv, CallRecs, CallStates
<1> HIDE DEF r
<1>3. /\ call' \in [Calls -> CallRecs] /\ call'[c] = r
      /\ \A d \in Calls \ {c} : call'[d] = call[d]
  BY <1>1, <1>2, CallStep DEF IInv
<1>4. call[c].pc \in {"open", "closing"} /\ c \in Shells /\ c \notin Execs /\ HostOpen(c)
  BY <1>1, CallsAssumption DEF IInv, Standing, HostModes, HostOpen
<1>5. body \in Requests /\ body[1] = call[c].frame /\ call[c].frame \in {"Input", "CloseShell"}
  BY <1>1, CallTypes, RequestMarks DEF IInv
<1>6. /\ up' \in [Calls -> Seq(Requests)] /\ up'[c] = Append(up[c], body)
      /\ \A d \in Calls \ {c} : up'[d] = up[d]
  <2>1. Append(up[c], body) \in Seq(Requests)
    BY <1>5, CallTypes, AppendProperties DEF IInv
  <2> QED BY <1>1, <2>1, ChannelStep DEF IInv, Types, WireTypes
<1>7. /\ down' \in [Calls -> Seq(Responses)] /\ Len(down'[c]) <= Buffer
      /\ \A d \in Calls \ {c} : down'[d] = down[d]
      /\ Delivered(c)' /\ LastComesLast(c)' /\ Collected(c)'
  BY <1>1, <1>2, <1>3, <1>4, WriterStream
<1>8. Types'
  BY <1>1, <1>3, <1>6, <1>7 DEF IInv, Types, HostTypes, WireTypes, GuestTypes
<1>9. AtHost(c)
  BY <1>1, <1>2, <1>3, <1>4, <1>6, <1>7 DEF AtHost
<1>10. Bounds(c)' /\ HostModes(c)' /\ Fresh(c)'
  BY <1>1, <1>2, <1>3, <1>4, <1>7 DEF IInv, Standing, Bounds, HostModes, Fresh
<1>11. Opening(c)'
  BY <1>1, <1>4, <1>5, <1>6, OpeningAppend DEF IInv, Standing
<1>12. Entered(c)'
  <2>1. \/ body[1] # "Input" /\ Framed(c)' = Framed(c)
        \/ body = <<"Input", Framed(c) + 1>> /\ Framed(c)' = Framed(c) + 1
    <3>1. CASE call[c].frame = "Input"
      <4>1. Framed(c) = call[c].sent - 1 /\ Framed(c)' = call[c].sent
        BY <1>2, <1>3, <3>1 DEF Framed
      <4> QED BY <3>1, <4>1, CallTypes DEF IInv
    <3>2. CASE call[c].frame = "CloseShell"
      BY <1>2, <1>3, <1>5, <3>2 DEF Framed
    <3> QED BY <1>5, <3>1, <3>2
  <2> HIDE DEF body
  <2> QED BY <1>1, <1>4, <1>5, <1>6, <2>1, EnteredAppend DEF IInv, Standing, Streaming
<1> QED BY <1>7, <1>8, <1>9, <1>10, <1>11, <1>12, AtHostKept DEF Standing, Streaming

LEMMA ReceiveKeeps ==
    ASSUME IInv, NEW c \in Calls, Receive(c) PROVE IInv'
<1> DEFINE msg == Head(rx[c])
           q == Line(c)
<1>1. /\ call[c].listening /\ rx[c] # <<>>
      /\ rx' = [rx EXCEPT ![c] = Tail(rx[c])]
      /\ UNCHANGED <<up, down, backlog, dropped, agent, child, typed>>
  BY DEF Receive
<1>2. Types /\ WriteModes /\ HostModes(c) /\ Delivered(c) /\ LastComesLast(c) /\ Collected(c)
  BY DEF IInv, Standing, Streaming
<1>3. call[c].pc # "idle" /\ call[c].pc # "answered"
  BY <1>1 DEF IInv, Standing, Fresh, HostModes, NewCall
<1>4. /\ msg \in Responses /\ Tail(rx[c]) \in Seq(Responses) /\ Len(Tail(rx[c])) = Len(rx[c]) - 1
      /\ Len(rx[c]) \in Nat /\ msg = rx[c][1] /\ 1 \in 1..Len(rx[c])
      /\ \A i \in 1..Len(Tail(rx[c])) : Tail(rx[c])[i] = rx[c][i + 1] /\ i + 1 \in 1..Len(rx[c])
  BY <1>1, <1>2, CallTypes, EntryTypes, HeadTailProperties
<1>5. /\ rx' \in [Calls -> Seq(Responses)] /\ rx'[c] = Tail(rx[c])
      /\ \A d \in Calls \ {c} : rx'[d] = rx[d]
  BY <1>1, <1>2, <1>4, ChannelStep DEF Types, HostTypes
<1>6. /\ q \in Seq(Responses) /\ q # <<>> /\ Head(q) = msg
      /\ (HostOpen(c)' <=> HostOpen(c)) => Line(c)' = Tail(q)
  <2>1. CASE HostOpen(c)
    <3> DEFINE rest == down[c] \o Pending(c)
    <3>1. rest \in Seq(Responses) /\ rx[c] \in Seq(Responses) /\ rx[c] \o rest \in Seq(Responses)
      BY <1>2, LineTypes, CallTypes
    <3>2. q = rx[c] \o rest
      BY <2>1 DEF Line
    <3>3. HostOpen(c)' => Line(c)' = Tail(rx[c]) \o rest
      BY <1>1, <1>5 DEF Line, Pending
    <3> HIDE DEF rest, q
    <3>4. q # <<>> /\ Head(q) = Head(rx[c]) /\ Tail(q) = Tail(rx[c]) \o rest
      BY <1>1, <3>1, <3>2, TailConcat
    <3> QED BY <2>1, <3>1, <3>2, <3>3, <3>4
  <2>2. CASE ~HostOpen(c)
    <3>1. q = rx[c] /\ (~HostOpen(c)' => Line(c)' = Tail(rx[c]))
      BY <1>5, <2>2 DEF Line
    <3> HIDE DEF q
    <3> QED BY <1>1, <1>2, <2>2, <3>1, CallTypes
  <2> QED BY <2>1, <2>2
<1>7. /\ Len(q) \in Nat \ {0} /\ q[1] = msg /\ Len(Tail(q)) = Len(q) - 1 /\ 1 \in 1..Len(q)
      /\ \A i \in 1..Len(Tail(q)) : Tail(q)[i] = q[i + 1] /\ i + 1 \in 1..Len(q)
      /\ Tail(q) \in Seq(Responses) /\ \A i \in 1..Len(Tail(q)) : i + 1 = Len(q) => i = Len(Tail(q))
  <2> HIDE DEF q
  <2>1. /\ Len(q) \in Nat \ {0} /\ q[1] = msg /\ Len(Tail(q)) = Len(q) - 1
        /\ \A i \in 1..Len(Tail(q)) : Tail(q)[i] = q[i + 1]
        /\ Tail(q) \in Seq(Responses)
    BY <1>6, EntryTypes, EmptySeq, HeadTailProperties
  <2>2. ASSUME NEW n \in Nat, NEW k, k = n - 1, NEW i \in 1..k
        PROVE  i + 1 \in 1..n /\ i + 1 <= n /\ (i + 1 = n => i = k)
    BY <2>2
  <2>3. 1 \in 1..Len(q)
    BY <2>1
  <2> QED BY <2>1, <2>2, <2>3
<1>8. Bounds(c)'
  <2>1. Len(rx'[c]) <= Capacity
    <3>1. Len(rx[c]) <= Capacity /\ Capacity \in Nat
      BY BoundsAssumption DEF IInv, Standing, Bounds
    <3> QED BY <1>4, <1>5, <3>1
  <2> QED BY <1>1, <2>1 DEF IInv, Standing, Bounds
<1>9. ASSUME NEW s \in Streams
      PROVE  /\ Len(got[c][s]) \in Nat /\ child[c].read[s] \in Nat
             /\ Ordered(q, s, Len(got[c][s]), child[c].read[s])
             /\ HostOpen(c) \/ EndsInExit(q) => Complete(q, s, Len(got[c][s]), child[c].read[s])
             /\ Len(got[c][s]) <= child[c].read[s] /\ Counts(got[c][s]) /\ got[c][s] \in Seq(Nat)
  BY <1>1, <1>2, CallTypes, ChildTypes DEF Delivered, Collected
<1>10. \A x \in Responses : x = <<x[1], x[2]>> /\ x[2] \in Nat
  BY ResponseTypes
<1>11. CASE msg = Exit
  <2> DEFINE r == [call[c] EXCEPT !.pc = "answered", !.listening = FALSE]
  <2>1. call' = [call EXCEPT ![c] = r] /\ UNCHANGED got
    BY <1>11 DEF Receive
  <2>2. /\ r \in CallRecs /\ r.pc = "answered" /\ r.reading = call[c].reading
        /\ r.listening = FALSE /\ r.frame = call[c].frame /\ r.sent = call[c].sent
    BY <1>2, CallTypes DEF CallRecs, CallStates
  <2> HIDE DEF r
  <2>3. /\ call' \in [Calls -> CallRecs] /\ call'[c] = r
        /\ \A d \in Calls \ {c} : call'[d] = call[d]
    BY <1>2, <2>1, <2>2, CallStep
  <2>4. Len(q) = 1 /\ ~Busy(c) /\ c \in Execs /\ child[c].state = "exited"
    BY <1>1, <1>2, <1>7, <1>11 DEF LastComesLast
  <2>5. EndsInExit(q)
    BY <1>6, <1>7, <1>11, <2>4 DEF EndsInExit
  <2>6. ASSUME NEW s \in Streams PROVE Len(got[c][s]) = child[c].read[s]
    <3> DEFINE lo == Len(got[c][s])
               hi == child[c].read[s]
    <3>1. lo \in Nat /\ hi \in Nat /\ lo <= hi /\ Complete(q, s, lo, hi)
      BY <1>9, <2>5
    <3> HIDE DEF lo, hi
    <3>2. ASSUME lo < hi PROVE FALSE
      <4>1. hi \in 1..hi
        BY <3>1, <3>2
      <4>2. PICK i \in 1..Len(q) : q[i] = <<s, hi>>
        BY <3>1, <3>2, <4>1 DEF Complete
      <4>3. q[1] = <<s, hi>>
        BY <2>4, <4>2
      <4>4. Exit[1] = s
        <5> HIDE DEF q, msg
        <5>1. Exit = <<s, hi>>
          BY <1>7, <1>11, <4>3
        <5> QED BY <5>1
      <4> QED BY <4>4, Marks
    <3> QED BY <3>1, <3>2 DEF lo, hi
  <2>7. call[c].pc \notin {"open", "closing"} /\ call[c].frame = "none"
    BY <1>2, <2>4, CallsAssumption DEF HostModes
  <2>8. Types'
    BY <1>1, <1>2, <1>5, <2>1, <2>3 DEF Types, HostTypes, WireTypes, GuestTypes
  <2>9. AtHost(c)
    BY <1>1, <1>3, <1>5, <2>1, <2>2, <2>3 DEF AtHost
  <2>10. HostModes(c)' /\ Fresh(c)'
    BY <1>1, <1>2, <1>3, <2>2, <2>3, <2>4, <2>7 DEF IInv, Standing, HostModes, Fresh
  <2>11. Opening(c)'
    BY <1>1, <2>2, <2>3, OpeningKept DEF IInv, Standing
  <2>12. Delivered(c)' /\ LastComesLast(c)'
    BY <2>2, <2>3 DEF Delivered, LastComesLast
  <2>13. Collected(c)'
    <3>1. ~Busy(c)'
      BY <1>1, <2>4 DEF Busy, Runs
    <3> QED BY <1>1, <1>2, <2>1, <2>4, <2>6, <3>1 DEF Collected
  <2>14. Entered(c)'
    BY <1>1, <2>2, <2>3, EnteredKept DEF IInv, Streaming
  <2> QED BY <1>8, <2>8, <2>9, <2>10, <2>11, <2>12, <2>13, <2>14, AtHostKept DEF Standing, Streaming
<1>12. CASE msg # Exit
  <2>1. got' = [got EXCEPT ![c][msg[1]] = Append(got[c][msg[1]], msg[2])] /\ UNCHANGED call
    BY <1>12 DEF Receive
  <2>2. msg # ShellClosed
    BY <1>1, <1>2, <1>4 DEF LastComesLast
  <2>3. msg[1] \in Streams
    BY <1>4, <1>12, <2>2, ResponseTypes
  <2> DEFINE lo == [s \in Streams |-> Len(got[c][s])]
             hi == child[c].read
             m == msg[1]
  <2>4. msg = <<m, lo[m] + 1>> /\ lo[m] + 1 <= hi[m] /\ lo[m] \in Nat
        /\ Ordered(Tail(q), m, lo[m] + 1, hi[m])
        /\ (Complete(q, m, lo[m], hi[m]) => Complete(Tail(q), m, lo[m] + 1, hi[m]))
    <3>1. /\ lo[m] \in Nat /\ hi[m] \in Nat /\ Ordered(q, m, lo[m], hi[m])
      BY <1>9, <2>3
    <3> HIDE DEF lo, hi, q, msg
    <3> QED BY <1>6, <1>10, <3>1, OrderedTail
  <2>5. ASSUME NEW s \in Streams, s # m
        PROVE  /\ Ordered(Tail(q), s, lo[s], hi[s])
               /\ Complete(q, s, lo[s], hi[s]) => Complete(Tail(q), s, lo[s], hi[s])
    <3>1. /\ lo[s] \in Nat /\ hi[s] \in Nat /\ Ordered(q, s, lo[s], hi[s])
      BY <1>9
    <3> HIDE DEF lo, hi, q, msg
    <3> QED BY <1>6, <1>10, <2>5, <3>1, OrderedTail
  <2>6. /\ got' \in [Calls -> [Streams -> Seq(Nat)]]
        /\ got'[c][m] = Append(got[c][m], lo[m] + 1)
        /\ \A s \in Streams : s # m => got'[c][s] = got[c][s]
        /\ \A d \in Calls \ {c} : got'[d] = got[d]
    <3>1. got \in [Calls -> [Streams -> Seq(Nat)]] /\ m \in Streams
      BY <1>2, <2>3 DEF Types, HostTypes
    <3>2. msg[2] = lo[m] + 1 /\ Append(got[c][m], lo[m] + 1) \in Seq(Nat)
      <4>1. msg[2] = lo[m] + 1
        BY <2>4, SMTT(30)
      <4>2. lo[m] + 1 \in Nat
        BY <2>4, SMTT(30)
      <4> HIDE DEF lo, m
      <4> QED BY <3>1, <4>1, <4>2, AppendProperties
    <3> HIDE DEF lo, msg
    <3> QED BY <2>1, <3>1, <3>2
  <2>7. /\ Len(got'[c][m]) = lo[m] + 1 /\ Counts(got'[c][m])
    BY <1>9, <2>3, <2>6, CountsAppend
  <2>8. HostOpen(c)' <=> HostOpen(c)
    BY <2>1 DEF HostOpen
  <2>9. Line(c)' = Tail(q)
    BY <1>6, <2>8
  <2>10. Types'
    BY <1>1, <1>2, <1>5, <2>1, <2>6 DEF Types, HostTypes, WireTypes, GuestTypes
  <2>11. AtHost(c)
    BY <1>1, <1>3, <1>5, <2>1, <2>6 DEF AtHost
  <2>12. HostModes(c)' /\ Fresh(c)'
    BY <1>1, <1>2, <1>3, <2>1 DEF IInv, Standing, HostModes, Fresh
  <2>13. Opening(c)'
    BY <1>1, <2>1, OpeningKept DEF IInv, Standing
  <2>14. EndsInExit(Tail(q)) => EndsInExit(q)
    <3> HIDE DEF q, msg
    <3>1. ASSUME Tail(q) # <<>> PROVE Tail(q)[Len(Tail(q))] = q[Len(q)]
      <4>1. Len(Tail(q)) \in 1..Len(Tail(q))
        BY <1>7, <3>1, EntryTypes
      <4>2. \A i \in 1..Len(Tail(q)) : i = Len(Tail(q)) => Tail(q)[i] = q[Len(q)]
        <5>1. ASSUME NEW i \in 1..Len(Tail(q)), i = Len(Tail(q)) PROVE i + 1 = Len(q)
          <6>1. ASSUME NEW n \in Nat, NEW k, k = n - 1 PROVE k + 1 = n
            BY <6>1
          <6>2. Len(q) \in Nat /\ Len(Tail(q)) = Len(q) - 1
            BY <1>7
          <6> QED BY <5>1, <6>1, <6>2, Zenon
        <5>2. \A i \in 1..Len(Tail(q)) : Tail(q)[i] = q[i + 1]
          BY <1>7
        <5> QED BY <5>1, <5>2, Zenon
      <4> QED BY <4>1, <4>2, Zenon
    <3> QED BY <1>6, <3>1 DEF EndsInExit
  <2>15. Delivered(c)'
    <3>1. ASSUME NEW s \in Streams
          PROVE  /\ Ordered(Tail(q), s, Len(got'[c][s]), hi[s])
                 /\ HostOpen(c) \/ EndsInExit(q) => Complete(Tail(q), s, Len(got'[c][s]), hi[s])
      <4>1. HostOpen(c) \/ EndsInExit(q) => Complete(q, s, lo[s], hi[s])
        BY <1>9
      <4>2. CASE s = m
        <5>1. Len(got'[c][s]) = lo[m] + 1
          BY <2>7, <4>2
        <5> HIDE DEF lo, hi, q, m
        <5> QED BY <2>4, <4>1, <4>2, <5>1
      <4>3. CASE s # m
        <5>1. Len(got'[c][s]) = lo[s]
          BY <2>6, <4>3
        <5> HIDE DEF lo, hi, q, m
        <5> QED BY <2>5, <4>1, <4>3, <5>1
      <4> QED BY <4>2, <4>3
    <3>2. child'[c].read = hi /\ call'[c].listening
      BY <1>1, <2>1
    <3> HIDE DEF hi, q
    <3> QED BY <2>8, <2>9, <2>14, <3>1, <3>2 DEF Delivered
  <2>16. LastComesLast(c)'
    <3>1. \A i \in 1..Len(rx'[c]) : rx'[c][i] # ShellClosed
      BY <1>1, <1>2, <1>4, <1>5 DEF LastComesLast
    <3>2. Busy(c)' <=> Busy(c)
      BY <1>1 DEF Busy, Runs
    <3>3. ASSUME NEW i \in 1..Len(Tail(q)), Tail(q)[i] \in {Exit, ShellClosed}
          PROVE  /\ i = Len(Tail(q)) /\ ~Busy(c)
                 /\ Tail(q)[i] = Exit => c \in Execs /\ child[c].state = "exited"
                 /\ Tail(q)[i] = ShellClosed => child[c].state = "reaped"
      <4>1. Tail(q)[i] = q[i + 1] /\ i + 1 \in 1..Len(q)
        BY <1>7
      <4>2. /\ i + 1 = Len(q) /\ ~Busy(c)
            /\ q[i + 1] = Exit => c \in Execs /\ child[c].state = "exited"
            /\ q[i + 1] = ShellClosed => child[c].state = "reaped"
        BY <1>1, <1>2, <3>3, <4>1 DEF LastComesLast
      <4>3. i = Len(Tail(q))
        BY <1>7, <4>2
      <4> QED BY <4>1, <4>2, <4>3
    <3> HIDE DEF q
    <3> QED BY <1>1, <2>9, <3>1, <3>2, <3>3 DEF LastComesLast
  <2>17. Collected(c)'
    <3>1. \A s \in Streams : Counts(got'[c][s]) /\ Len(got'[c][s]) <= child'[c].read[s]
      BY <1>1, <1>9, <2>4, <2>6, <2>7, ZenonT(30)
    <3> QED BY <1>3, <2>1, <3>1 DEF Collected
  <2>18. Entered(c)'
    BY <1>1, <2>1, EnteredKept DEF IInv, Streaming
  <2> QED BY <1>8, <2>10, <2>11, <2>12, <2>13, <2>15, <2>16, <2>17, <2>18, AtHostKept
          DEF Standing, Streaming
<1> QED BY <1>11, <1>12

\* The last response is the end of what is on its way.
LEMMA LastOnItsWay ==
    ASSUME Types, WriteModes, NEW c \in Calls, LastComesLast(c), call[c].listening,
           HostOpen(c), down[c] # <<>>, Head(down[c]) \in {Exit, ShellClosed}
    PROVE  /\ Line(c) = Append(rx[c], Head(down[c]))
           /\ Tail(down[c]) \o Pending(c) = <<>>
           /\ Head(down[c]) = Exit => c \in Execs
<1> DEFINE msg == Head(down[c])
           rest == Tail(down[c]) \o Pending(c)
           q == Line(c)
<1>1. /\ rx[c] \in Seq(Responses) /\ down[c] \in Seq(Responses) /\ Pending(c) \in Seq(Responses)
      /\ msg \in Responses /\ Tail(down[c]) \in Seq(Responses) /\ rest \in Seq(Responses)
      /\ Append(rx[c], msg) \in Seq(Responses)
  BY CallTypes, LineTypes, HeadTailProperties, ConcatProperties, AppendProperties
<1>2. q = Append(rx[c], msg) \o rest
  <2>1. q = rx[c] \o (down[c] \o Pending(c))
    BY DEF Line
  <2>2. Append(rx[c], msg) \o rest = rx[c] \o (down[c] \o Pending(c))
    <3>1. ASSUME NEW a \in Seq(Responses), NEW b \in Seq(Responses), NEW p \in Seq(Responses), b # <<>>
          PROVE  Append(a, Head(b)) \o (Tail(b) \o p) = a \o (b \o p)
      BY <3>1, ConcatMove, SMTT(30)
    <3> QED BY <1>1, <3>1, ZenonT(30) DEF rest, msg
  <2> QED BY <2>1, <2>2
<1> HIDE DEF q, rest, msg
<1> DEFINE front == Append(rx[c], msg)
<1>3. /\ Len(front) \in Nat \ {0} /\ Len(rest) \in Nat
      /\ front[Len(front)] = msg /\ front \in Seq(Responses)
  <2>1. Len(rx[c]) \in Nat /\ Len(front) = Len(rx[c]) + 1 /\ front[Len(rx[c]) + 1] = msg
    BY <1>1, EntryTypes, AppendProperties
  <2> QED BY <1>1, <2>1, EntryTypes
<1> HIDE DEF front
<1>4. Len(q) = Len(front) + Len(rest) /\ q[Len(front)] = msg
  <2>1. q = front \o rest
    BY <1>2 DEF front
  <2>2. Len(front) \in 1..Len(front) + Len(rest)
    BY <1>3
  <2> QED BY <1>1, <1>3, <2>1, <2>2, ConcatProperties
<1>5. Len(front) \in 1..Len(q)
  BY <1>3, <1>4
<1>6. Len(front) = Len(q) /\ (msg = Exit => c \in Execs)
  BY <1>4, <1>5 DEF LastComesLast, q, msg
<1>7. rest = <<>>
  BY <1>1, <1>3, <1>4, <1>6, EmptySeq
<1>8. q = front
  BY <1>1, <1>2, <1>3, <1>7, ConcatEmptySeq DEF front
<1> QED BY <1>6, <1>7, <1>8 DEF front, q, rest, msg

\* What the reading task does to the responses.
LEMMA PassOnStream ==
    ASSUME IInv, NEW c \in Calls, PassOn(c),
           rx' \in [Calls -> Seq(Responses)], down'[c] = IF HostOpen(c)' THEN Tail(down[c]) ELSE <<>>,
           call'[c].reading = (call[c].listening /\ Head(down[c]) \notin {Exit, ShellClosed}),
           call'[c].listening = call[c].listening, call'[c].pc = call[c].pc
    PROVE  Delivered(c)' /\ LastComesLast(c)' /\ Collected(c)'
<1> DEFINE msg == Head(down[c])
<1>1. /\ call[c].reading /\ down[c] # <<>> /\ UNCHANGED <<got, agent, child>>
      /\ rx' = IF call[c].listening /\ msg # ShellClosed
               THEN [rx EXCEPT ![c] = Append(rx[c], msg)] ELSE rx
  BY DEF PassOn
<1>2. Types /\ WriteModes /\ HostModes(c) /\ Delivered(c) /\ LastComesLast(c) /\ Collected(c)
  BY DEF IInv, Standing, Streaming
<1>3. HostOpen(c) /\ Busy(c)' = Busy(c) /\ Pending(c)' = Pending(c)
  BY <1>1 DEF HostOpen, Busy, Runs, Pending
<1>4. /\ rx[c] \in Seq(Responses) /\ down[c] \in Seq(Responses) /\ Pending(c) \in Seq(Responses)
      /\ msg \in Responses /\ rx \in [Calls -> Seq(Responses)]
  BY <1>1, <1>2, CallTypes, LineTypes, HeadTailProperties DEF Types, HostTypes
<1>5. Line(c) = rx[c] \o (down[c] \o Pending(c))
  BY <1>3 DEF Line
<1>6. CASE ~call[c].listening
  <2>1. Delivered(c)' /\ LastComesLast(c)'
    BY <1>6 DEF Delivered, LastComesLast
  <2>2. Collected(c)'
    BY <1>1, <1>2, <1>3 DEF Collected
  <2> QED BY <2>1, <2>2
<1>7. CASE call[c].listening /\ msg # ShellClosed
  <2>1. rx'[c] = Append(rx[c], msg)
    BY <1>1, <1>4, <1>7
  <2>2. \A i \in 1..Len(rx'[c]) : rx'[c][i] # ShellClosed
    <3>1. /\ \A i \in 1..Len(rx[c]) : rx[c][i] # ShellClosed /\ rx'[c][i] = rx[c][i]
          /\ Len(rx'[c]) = Len(rx[c]) + 1 /\ Len(rx[c]) \in Nat
          /\ rx'[c][Len(rx[c]) + 1] = msg
      BY <1>2, <1>4, <1>7, <2>1, AppendProperties, EntryTypes DEF LastComesLast
    <3> HIDE DEF msg
    <3> QED BY <1>7, <3>1
  <2>3. Line(c)' = Line(c)
    <3>1. CASE HostOpen(c)'
      <4>1. Line(c)' = Append(rx[c], msg) \o (Tail(down[c]) \o Pending(c))
        BY <1>3, <2>1, <3>1 DEF Line
      <4>2. Append(rx[c], msg) \o (Tail(down[c]) \o Pending(c)) = rx[c] \o (down[c] \o Pending(c))
        <5>1. ASSUME NEW a \in Seq(Responses), NEW b \in Seq(Responses), NEW p \in Seq(Responses), b # <<>>
              PROVE  Append(a, Head(b)) \o (Tail(b) \o p) = a \o (b \o p)
          BY <5>1, ConcatMove, SMTT(30)
        <5> QED BY <1>1, <1>4, <5>1, Zenon
      <4> QED BY <1>5, <4>1, <4>2
    <3>2. CASE ~HostOpen(c)'
      <4>1. msg = Exit
        BY <1>7, <3>2 DEF HostOpen
      <4>2. Line(c)' = Append(rx[c], msg)
        BY <2>1, <3>2 DEF Line
      <4> QED BY <1>1, <1>2, <1>3, <1>7, <4>1, <4>2, LastOnItsWay
    <3> QED BY <3>1, <3>2
  <2> QED BY <1>1, <1>2, <1>3, <1>7, <2>2, <2>3, StreamKept
<1>8. CASE call[c].listening /\ msg = ShellClosed
  <2>1. rx' = rx
    BY <1>1, <1>8
  <2>2. Line(c) = Append(rx[c], msg) /\ Tail(down[c]) \o Pending(c) = <<>>
    BY <1>1, <1>2, <1>3, <1>8, LastOnItsWay
  <2>3. Line(c)' = rx[c]
    <3>1. rx[c] \o <<>> = rx[c]
      BY <1>4, ConcatEmptySeq
    <3> QED BY <1>3, <2>1, <2>2, <3>1 DEF Line
  <2>4. Delivered(c)'
    <3>1. ASSUME NEW s \in Streams
          PROVE  /\ Ordered(rx[c], s, Len(got[c][s]), child[c].read[s])
                 /\ Complete(rx[c], s, Len(got[c][s]), child[c].read[s])
      <4>1. /\ Ordered(Append(rx[c], msg), s, Len(got[c][s]), child[c].read[s])
            /\ Complete(Append(rx[c], msg), s, Len(got[c][s]), child[c].read[s])
        BY <1>2, <1>3, <1>8, <2>2 DEF Delivered
      <4>2. msg[1] # s /\ Append(rx[c], msg) = rx[c] \o <<msg>> /\ <<msg>> \in Seq(Responses)
        BY <1>4, <1>8, Marks, AppendIsConcat
      <4> HIDE DEF msg
      <4> QED BY <1>4, <4>1, <4>2, OrderedPrefix, CompleteWithout, ZenonT(30)
    <3> QED BY <1>1, <2>3, <3>1 DEF Delivered
  <2>5. LastComesLast(c)'
    <3>1. \A i \in 1..Len(rx[c]) : rx[c][i] \notin {Exit, ShellClosed}
      <4> DEFINE q == Append(rx[c], msg)
      <4>1. /\ Len(rx[c]) \in Nat /\ Len(q) = Len(rx[c]) + 1
            /\ \A i \in 1..Len(rx[c]) : q[i] = rx[c][i]
        BY <1>4, AppendProperties, EntryTypes
      <4>2. \A i \in 1..Len(q) : q[i] \in {Exit, ShellClosed} => i = Len(q)
        BY <1>2, <1>8, <2>2 DEF LastComesLast
      <4> HIDE DEF q
      <4> QED BY <4>1, <4>2
    <3> QED BY <2>1, <2>3, <3>1 DEF LastComesLast
  <2>6. Collected(c)'
    BY <1>1, <1>2, <1>3 DEF Collected
  <2> QED BY <2>4, <2>5, <2>6
<1> QED BY <1>6, <1>7, <1>8

LEMMA PassOnKeeps ==
    ASSUME IInv, NEW c \in Calls, PassOn(c) PROVE IInv'
<1> DEFINE msg == Head(down[c])
           on == call[c].listening /\ msg \notin {Exit, ShellClosed}
           r == [call[c] EXCEPT !.reading = on]
           rest == IF HostOpen(c)' THEN Tail(down[c]) ELSE <<>>
<1>1. /\ call[c].reading /\ down[c] # <<>> /\ Leave(c, Tail(down[c]))
      /\ call' = [call EXCEPT ![c] = r]
      /\ call[c].listening /\ msg # ShellClosed => Len(rx[c]) < Capacity
      /\ rx' = IF call[c].listening /\ msg # ShellClosed
               THEN [rx EXCEPT ![c] = Append(rx[c], msg)] ELSE rx
      /\ UNCHANGED <<got, up, backlog, dropped, agent, child, typed>>
  BY DEF PassOn
<1>2. Types
  BY DEF IInv
<1>3. /\ r \in CallRecs /\ r.pc = call[c].pc /\ r.reading = on
      /\ r.listening = call[c].listening /\ r.frame = call[c].frame /\ r.sent = call[c].sent
  BY <1>2, CallTypes DEF CallRecs
<1>4. /\ call' \in [Calls -> CallRecs] /\ call'[c] = r
      /\ \A d \in Calls \ {c} : call'[d] = call[d]
  <2> HIDE DEF r
  <2> QED BY <1>1, <1>2, <1>3, CallStep
<1> HIDE DEF r
<1>5. call[c].pc # "idle"
  BY <1>1 DEF IInv, Standing, Fresh
<1>6. /\ msg \in Responses /\ Tail(down[c]) \in Seq(Responses) /\ rx[c] \in Seq(Responses)
      /\ Len(Tail(down[c])) = Len(down[c]) - 1 /\ Len(down[c]) \in Nat
  BY <1>1, <1>2, CallTypes, HeadTailProperties, EntryTypes
<1>7. rest \in Seq(Responses) /\ Len(rest) <= Len(down[c])
  BY <1>6, EmptyTypes
<1>8. /\ down' \in [Calls -> Seq(Responses)] /\ down'[c] = rest
      /\ \A d \in Calls \ {c} : down'[d] = down[d]
  <2>1. down' = [down EXCEPT ![c] = rest]
    BY <1>1 DEF Leave
  <2> HIDE DEF rest
  <2> QED BY <1>2, <1>7, <2>1, ChannelStep DEF Types, WireTypes
<1>9. /\ rx' \in [Calls -> Seq(Responses)] /\ Len(rx'[c]) <= Capacity
      /\ \A d \in Calls \ {c} : rx'[d] = rx[d]
  <2>1. rx \in [Calls -> Seq(Responses)] /\ Len(rx[c]) <= Capacity /\ Capacity \in Nat
    BY BoundsAssumption DEF IInv, Types, HostTypes, Standing, Bounds
  <2>2. CASE call[c].listening /\ msg # ShellClosed
    <3>1. Append(rx[c], msg) \in Seq(Responses) /\ Len(Append(rx[c], msg)) = Len(rx[c]) + 1
      BY <1>6, AppendProperties
    <3>2. rx' = [rx EXCEPT ![c] = Append(rx[c], msg)] /\ Len(rx[c]) < Capacity
      BY <1>1, <2>2
    <3>3. /\ rx' \in [Calls -> Seq(Responses)] /\ rx'[c] = Append(rx[c], msg)
          /\ \A d \in Calls \ {c} : rx'[d] = rx[d]
      BY <2>1, <3>1, <3>2, ChannelStep
    <3>4. Len(rx[c]) \in Nat
      BY <1>6, EntryTypes
    <3> QED BY <2>1, <3>1, <3>2, <3>3, <3>4
  <2>3. CASE ~(call[c].listening /\ msg # ShellClosed)
    BY <1>1, <2>1, <2>3
  <2> QED BY <2>2, <2>3
<1>10. Types'
  BY <1>1, <1>2, <1>4, <1>8, <1>9 DEF Types, HostTypes, WireTypes, GuestTypes
<1>11. AtHost(c)
  BY <1>1, <1>3, <1>4, <1>5, <1>8, <1>9 DEF AtHost
<1>12. Bounds(c)' /\ HostModes(c)' /\ Fresh(c)'
  <2>1. Len(down'[c]) <= Buffer
    <3>1. Len(down[c]) <= Buffer /\ Buffer \in Nat /\ Len(rest) \in Nat
      BY <1>7, BoundsAssumption, EntryTypes DEF IInv, Standing, Bounds
    <3> HIDE DEF rest
    <3> QED BY <1>6, <1>7, <1>8, <3>1
  <2>2. Bounds(c)'
    BY <1>1, <1>9, <2>1 DEF IInv, Standing, Bounds
  <2>3. HostModes(c)' /\ Fresh(c)'
    BY <1>1, <1>3, <1>4, <1>5 DEF IInv, Standing, HostModes, Fresh
  <2> QED BY <2>2, <2>3
<1>13. Opening(c)'
  BY <1>1, <1>3, <1>4, OpeningKept DEF IInv, Standing
<1>14. Delivered(c)' /\ LastComesLast(c)' /\ Collected(c)'
  BY <1>3, <1>4, <1>8, <1>9, PassOnStream
<1>15. Entered(c)'
  BY <1>1, <1>3, <1>4, EnteredKept DEF IInv, Streaming
<1> QED BY <1>10, <1>11, <1>12, <1>13, <1>14, <1>15, AtHostKept DEF Standing, Streaming

\* A call that is made, whether its caller stays or not, finds nothing of its own.
LEMMA BeginKeeps ==
    ASSUME IInv, NEW c \in Calls, call[c].pc = "idle",
           NEW r \in CallRecs, NEW part \in Seq(Requests),
           call' = [call EXCEPT ![c] = r], up' = [up EXCEPT ![c] = part],
           backlog' = Append(backlog, c),
           UNCHANGED <<rx, got, down, dropped, agent, child, typed>>,
           r.frame = "none", r.sent = 0,
           \/ /\ part = <<Length, <<Kind(c), 0>>>>
              /\ r.pc = IF c \in Execs THEN "waiting" ELSE "open"
              /\ r.reading
           \/ /\ part \in {<<>>, <<Length>>} /\ r.pc = "over" /\ ~r.listening
    PROVE  IInv'
<1>1. Types /\ Fresh(c) /\ Bounds(c) /\ Collected(c) /\ Entered(c) /\ Placed
  BY DEF IInv, Standing, Streaming
<1>2. /\ call' \in [Calls -> CallRecs] /\ call'[c] = r
      /\ \A d \in Calls \ {c} : call'[d] = call[d]
  BY <1>1, CallStep
<1>3. /\ up' \in [Calls -> Seq(Requests)] /\ up'[c] = part
      /\ \A d \in Calls \ {c} : up'[d] = up[d]
  BY <1>1, ChannelStep DEF Types, WireTypes
<1>4. /\ c \notin dropped /\ rx[c] = <<>> /\ down[c] = <<>> /\ child[c].state = "none"
      /\ typed[c] = <<>> /\ \A s \in Streams : child[c].read[s] = 0
  BY <1>1 DEF Fresh
<1>5. agent.conn # c /\ NoCall # c
  BY <1>1, CallsAssumption DEF Placed, Calls
<1>6. /\ backlog \in Seq(Calls) /\ backlog' \in Seq(Calls) /\ Len(backlog) \in Nat
      /\ Len(backlog') = Len(backlog) + 1
      /\ \A i \in 1..Len(backlog) : backlog'[i] = backlog[i] /\ backlog[i] \in Calls
      /\ backlog'[Len(backlog) + 1] = c
  BY <1>1, AppendProperties, EntryTypes DEF Types, WireTypes
<1>7. Types'
  BY <1>1, <1>2, <1>3, <1>6 DEF Types, HostTypes, WireTypes, GuestTypes
<1>8. r.pc # "idle"
  OBVIOUS
<1>9. AgentModes' /\ WriteModes'
  BY DEF IInv, AgentModes, WriteModes, Busy, Runs
<1>10. Placed'
  <2>1. \A i \in 1..Len(backlog) :
           /\ backlog[i] # c /\ backlog[i] # agent.conn /\ backlog[i] \notin dropped
           /\ call'[backlog[i]].pc # "idle" /\ child[backlog[i]].state = "none"
    BY <1>1, <1>2, <1>6 DEF Placed
  <2>2. \A i \in 1..Len(backlog') : i \in 1..Len(backlog) \/ i = Len(backlog) + 1
    BY <1>6
  <2>3. \A i, j \in 1..Len(backlog') : backlog'[i] = backlog'[j] => i = j
    BY <1>1, <1>6, <2>1, <2>2 DEF Placed
  <2>4. \A i \in 1..Len(backlog') :
           /\ backlog'[i] # agent.conn /\ backlog'[i] \notin dropped
           /\ call'[backlog'[i]].pc # "idle" /\ child[backlog'[i]].state = "none"
    BY <1>2, <1>4, <1>5, <1>6, <1>8, <2>1, <2>2
  <2>5. agent.conn # NoCall => call'[agent.conn].pc # "idle"
    BY <1>1, <1>2, <1>5, AgentTypes DEF Placed
  <2> QED BY <1>1, <2>3, <2>4, <2>5 DEF Placed
<1>11. ASSUME NEW d \in Calls, d # c PROVE Standing(d)' /\ Streaming(d)'
  <2>1. Apart(d)
    BY <1>2, <1>3, <1>11 DEF Apart
  <2> QED BY <2>1, ApartKept DEF IInv
<1>12. Bounds(c)'
  BY <1>1 DEF Bounds
<1>13. HostModes(c)'
  BY <1>2, CallsAssumption DEF HostModes, Calls
<1>14. Fresh(c)'
  BY <1>1, <1>2, <1>4, <1>8 DEF Fresh
<1>15. Opening(c)'
  <2>1. First(c)' = 2
    BY <1>5 DEF First
  <2>2. CASE part = <<Length, <<Kind(c), 0>>>>
    <3>1. Len(part) = 2 /\ part[1] = Length /\ part[2] = <<Kind(c), 0>> /\ part[2][1] = Kind(c)
      BY <2>2
    <3>a. Len(up'[c]) = 2 /\ up'[c][1] = Length /\ up'[c][2] = <<Kind(c), 0>>
      BY <1>3, <3>1
    <3>2. Opened(c)'
      BY <2>1, <3>a DEF Opened
    <3>3. \A i \in 1..Len(part) : part[i][1] \in {"Exec", "OpenShell"} => i = 2
      BY <3>1, RequestMarks
    <3> QED BY <1>3, <1>4, <2>1, <3>2, <3>3 DEF Opening
  <2>3. CASE part \in {<<>>, <<Length>>} /\ r.pc = "over"
    <3>1. \A i \in 1..Len(part) : part[i][1] = "Length"
      BY <2>3, RequestMarks
    <3> QED BY <1>2, <1>3, <2>3, <3>1 DEF Opening
  <2> QED BY <2>2, <2>3
<1>16. Pending(c)' = <<>> /\ Typing(c)' = <<>> /\ (r.listening => HostOpen(c)')
  BY <1>2, <1>5 DEF Pending, Typing, HostOpen
<1>17. Line(c)' = <<>>
  <2>1. <<>> \o (<<>> \o <<>>) = <<>>
    BY EmptyTypes, ConcatEmptySeq
  <2> QED BY <1>4, <1>16, <2>1 DEF Line
<1>18. \A s \in Streams : Len(got[c][s]) = 0
  <2>1. ASSUME NEW s \in Streams PROVE Len(got[c][s]) \in Nat /\ Len(got[c][s]) <= 0
    BY <1>1, <1>4, CallTypes DEF Collected
  <2> QED BY <2>1
<1>19. Delivered(c)'
  <2>1. \A s \in Streams : Ordered(<<>>, s, 0, 0) /\ Complete(<<>>, s, 0, 0)
    BY OrderedNothing
  <2> QED BY <1>4, <1>17, <1>18, <2>1 DEF Delivered
<1>20. LastComesLast(c)'
  BY <1>4, <1>17 DEF LastComesLast
<1>21. Collected(c)'
  BY <1>1, <1>2 DEF Collected
<1>22. Entered(c)'
  <2>1. Framed(c)' = 0 /\ Len(typed[c]) = 0
    BY <1>2, <1>4 DEF Framed
  <2>2. <<>> \o part = part
    BY ConcatEmptySeq
  <2>3. \A i \in 1..Len(part) : part[i][1] # "Input"
    <3>1. CASE part = <<Length, <<Kind(c), 0>>>>
      <4>1. \A i \in 1..Len(part) : part[i][1] \in {"Length", Kind(c)}
        BY <3>1, RequestMarks
      <4>2. Kind(c) # "Input"
        BY DEF Kind
      <4> QED BY <4>1, <4>2
    <3>2. CASE part \in {<<>>, <<Length>>}
      BY <3>2, RequestMarks
    <3> QED BY <3>1, <3>2
  <2>4. Ordered(part, "Input", 0, 0) /\ Complete(part, "Input", 0, 0)
    BY <2>3 DEF Ordered, Complete
  <2> QED BY <1>1, <1>3, <1>16, <2>1, <2>2, <2>4 DEF Entered
<1> QED BY <1>7, <1>9, <1>10, <1>11, <1>12, <1>13, <1>14, <1>15, <1>19, <1>20, <1>21, <1>22
        DEF IInv, Standing, Streaming

LEMMA ConnectKeeps ==
    ASSUME IInv, NEW c \in Calls, Connect(c) PROVE IInv'
<1> DEFINE to == IF c \in Execs THEN "waiting" ELSE "open"
           r == [NewCall EXCEPT !.reading = TRUE, !.listening = TRUE, !.pc = to]
           part == <<Length, <<Kind(c), 0>>>>
<1>1. /\ call[c].pc = "idle" /\ call' = [call EXCEPT ![c] = r] /\ up' = [up EXCEPT ![c] = part]
      /\ backlog' = Append(backlog, c)
      /\ UNCHANGED <<rx, got, down, dropped, agent, child, typed>>
  BY DEF Connect
<1>2. /\ r \in CallRecs /\ r.pc = to /\ r.reading /\ r.frame = "none" /\ r.sent = 0
  <2>1. NewCall \in CallRecs /\ NewCall.frame = "none" /\ NewCall.sent = 0
    <3>1. 0 \in 0..Inputs
      BY BoundsAssumption
    <3> QED BY <3>1 DEF NewCall, CallRecs, CallStates
  <2>2. to \in CallStates
    BY DEF CallStates
  <2> HIDE DEF to
  <2> QED BY <2>1, <2>2 DEF CallRecs
<1>3. part \in Seq(Requests)
  <2>1. Length \in Requests /\ <<Kind(c), 0>> \in Requests
    BY RequestMarks DEF Kind
  <2> QED BY <2>1
<1> HIDE DEF r
<1> QED BY <1>1, <1>2, <1>3, BeginKeeps

LEMMA ConnectCancelledKeeps ==
    ASSUME IInv, NEW c \in Calls, ConnectCancelled(c) PROVE IInv'
<1> DEFINE r == [call[c] EXCEPT !.pc = "over"]
<1>1. /\ call[c].pc = "idle" /\ call' = [call EXCEPT ![c] = r]
      /\ backlog' = Append(backlog, c)
      /\ UNCHANGED <<rx, got, down, dropped, agent, child, typed>>
  BY DEF ConnectCancelled
<1>2. PICK part \in {<<>>, <<Length>>} : up' = [up EXCEPT ![c] = part]
  BY DEF ConnectCancelled
<1>3. part \in Seq(Requests)
  BY RequestMarks, EmptyTypes, OneTypes
<1>4. call[c] = NewCall
  BY <1>1 DEF IInv, Standing, Fresh
<1>5. /\ r \in CallRecs /\ r.pc = "over" /\ r.frame = "none" /\ r.sent = 0 /\ ~r.listening
  <2>1. NewCall.frame = "none" /\ NewCall.sent = 0 /\ ~NewCall.listening
    BY DEF NewCall
  <2>2. /\ r \in CallRecs /\ r.pc = "over" /\ r.frame = call[c].frame /\ r.sent = call[c].sent
        /\ r.listening = call[c].listening
    BY CallTypes DEF IInv, CallRecs, CallStates
  <2> QED BY <1>4, <2>1, <2>2
<1> HIDE DEF r
<1> QED BY <1>1, <1>2, <1>3, <1>5, BeginKeeps

-----------------------------------------------------------------------------
(* Steps of the agent and of a child *)

\* A step that changes nothing the streams of c depend on.
Quiet(c) ==
    /\ call'[c] = call[c] /\ rx'[c] = rx[c] /\ got'[c] = got[c]
    /\ up'[c] = up[c] /\ typed'[c] = typed[c]
    /\ child'[c].state = child[c].state /\ child'[c].read = child[c].read
    /\ c \in dropped' <=> c \in dropped

LEMMA QuietKept ==
    ASSUME NEW c \in Calls, Quiet(c), Standing(c), Streaming(c), Bounds(c)',
           Line(c)' = Line(c), Typing(c)' = Typing(c), First(c)' = First(c),
           call[c].pc = "idle" => down'[c] = <<>>, Busy(c)' => Busy(c)
    PROVE  Standing(c)' /\ Streaming(c)'
<1> USE DEF Quiet
<1>1. HostOpen(c)' <=> HostOpen(c)
  BY DEF HostOpen
<1>2. Opened(c)' <=> Opened(c)
  BY DEF Opened
<1>3. Framed(c)' = Framed(c)
  BY DEF Framed
<1>4. HostModes(c)' /\ Fresh(c)'
  BY DEF Standing, HostModes, Fresh
<1>5. Opening(c)'
  BY <1>2 DEF Standing, Opening
<1>6. Delivered(c)'
  BY <1>1 DEF Streaming, Delivered
<1>7. LastComesLast(c)'
  BY DEF Streaming, LastComesLast
<1>8. Collected(c)'
  BY DEF Streaming, Collected
<1>9. Entered(c)'
  BY <1>3 DEF Streaming, Entered
<1> QED BY <1>4, <1>5, <1>6, <1>7, <1>8, <1>9 DEF Standing, Streaming

\* A step of the agent for the connection it serves, which it may close.
AtAgent(c) ==
    /\ agent.conn = c
    /\ UNCHANGED <<call, rx, got, backlog>>
    /\ \A d \in Calls \ {c} :
          up'[d] = up[d] /\ down'[d] = down[d] /\ child'[d] = child[d] /\ typed'[d] = typed[d]
    /\ \/ agent'.conn = c /\ dropped' = dropped
       \/ agent'.conn = NoCall /\ dropped' = dropped \cup {c}

LEMMA AtAgentKept ==
    ASSUME IInv, NEW c \in Calls, AtAgent(c), Types', AgentModes', WriteModes',
           Standing(c)', Streaming(c)'
    PROVE  IInv'
<1>1. ASSUME NEW d \in Calls PROVE Standing(d)' /\ Streaming(d)'
  <2>1. CASE d = c
    BY <2>1
  <2>2. CASE d # c
    <3>1. Apart(d)
      BY <2>2, CallsAssumption DEF AtAgent, Apart, Calls
    <3> QED BY <3>1, ApartKept DEF IInv
  <2> QED BY <2>1, <2>2
<1>2. Placed'
  <2>1. \A i \in 1..Len(backlog) : backlog[i] \in Calls /\ backlog[i] # c
    BY EntryTypes DEF IInv, Types, WireTypes, Placed, AtAgent
  <2>2. NoCall \notin Calls /\ NoCall \notin dropped /\ c \notin dropped /\ call[c].pc # "idle"
    BY CallsAssumption DEF IInv, Types, WireTypes, Placed, AtAgent, Calls
  <2>3. ASSUME NEW i \in 1..Len(backlog)
        PROVE  /\ backlog[i] # agent'.conn /\ backlog[i] \notin dropped'
               /\ call'[backlog[i]].pc # "idle" /\ child'[backlog[i]].state = "none"
    BY <2>1, <2>2 DEF IInv, Placed, AtAgent
  <2>4. agent'.conn \notin dropped' /\ (agent'.conn # NoCall => call'[agent'.conn].pc # "idle")
    BY <2>2 DEF AtAgent
  <2> QED BY <2>3, <2>4 DEF IInv, Placed, AtAgent
<1> QED BY <1>1, <1>2 DEF IInv

\* The call that the agent serves.
LEMMA Served ==
    ASSUME IInv, agent.mode # "accept"
    PROVE  /\ agent.conn \in Calls /\ agent.conn # NoCall /\ agent.conn \notin dropped
           /\ call[agent.conn].pc # "idle"
           /\ Standing(agent.conn) /\ Streaming(agent.conn)
BY AgentTypes DEF IInv, AgentModes, Placed

\* The connection is closed where nothing is being written to a host that reads.
LEMMA HangupKeeps ==
    ASSUME IInv, NEW c \in Calls, agent.conn = c, Hangup,
           UNCHANGED <<call, rx, got, down, backlog, typed>>,
           agent.mode = "write" => ~HostOpen(c)
    PROVE  IInv'
<1>1. /\ agent' = Accepting /\ dropped' = dropped \cup {c} /\ up' = [up EXCEPT ![c] = <<>>]
      /\ child' = [child EXCEPT ![c].unread = Nothing, ![c].held = 0]
  BY DEF Hangup
<1>2. Types
  BY DEF IInv
<1>3. /\ up' \in [Calls -> Seq(Requests)] /\ up'[c] = <<>>
      /\ \A d \in Calls \ {c} : up'[d] = up[d]
  BY <1>1, <1>2, EmptyTypes, ChannelStep DEF Types, WireTypes
<1>4. /\ child' \in [Calls -> ChildRecs]
      /\ child'[c].state = child[c].state /\ child'[c].read = child[c].read
      /\ child'[c].unread = Nothing /\ child'[c].held = 0
      /\ \A d \in Calls \ {c} : child'[d] = child[d]
  <2>1. child \in [Calls -> ChildRecs] /\ Nothing \in [Streams -> Nat]
    BY <1>2 DEF Types, GuestTypes, Nothing
  <2> HIDE DEF Nothing
  <2> QED BY <1>1, <2>1 DEF ChildRecs
<1>5. agent' \in AgentRecs /\ agent'.mode = "accept" /\ agent'.conn = NoCall /\ agent'.len = FALSE
  <2>1. Exit \in Responses \cup Requests
    BY Marks
  <2> QED BY <1>1, <2>1 DEF Accepting, AgentRecs, Modes
<1>6. Types'
  BY <1>1, <1>2, <1>3, <1>4, <1>5 DEF Types, HostTypes, WireTypes, GuestTypes
<1>7. AtAgent(c)
  BY <1>1, <1>3, <1>4, <1>5 DEF AtAgent
<1>8. AgentModes' /\ WriteModes'
  BY <1>5, CallsAssumption DEF AgentModes, WriteModes, Runs, Busy
<1>9. Standing(c) /\ Streaming(c) /\ call[c].pc # "idle"
  BY CallsAssumption DEF IInv, Placed, Calls
<1>10. c # NoCall /\ ~Busy(c)'
  BY <1>5, CallsAssumption DEF Busy, Calls
<1>11. Bounds(c)'
  <2>1. \A s \in Streams : child'[c].unread[s] = 0 /\ child[c].read[s] \in Nat /\ child[c].unread[s] \in Nat
    BY <1>2, <1>4, ChildTypes DEF Nothing
  <2> QED BY <1>4, <1>9, <2>1, BoundsAssumption DEF Standing, Bounds
<1>12. HostModes(c)' /\ Fresh(c)' /\ Opening(c)'
  BY <1>1, <1>3, <1>4, <1>9 DEF Standing, HostModes, Fresh, Opening
<1>13. HostOpen(c)' <=> HostOpen(c)
  BY DEF HostOpen
<1>14. Line(c)' = Line(c)
  BY <1>5, <1>10, <1>13 DEF Line, Pending
<1>15. Delivered(c)'
  BY <1>4, <1>9, <1>13, <1>14 DEF Streaming, Delivered
<1>16. LastComesLast(c)'
  BY <1>4, <1>9, <1>10, <1>14 DEF Streaming, LastComesLast
<1>17. Collected(c)'
  BY <1>4, <1>9, <1>10 DEF Streaming, Collected
<1>18. Entered(c)'
  <2>1. Framed(c)' = Framed(c)
    BY DEF Framed
  <2> QED BY <1>1, <1>9, <2>1 DEF Streaming, Entered
<1> QED BY <1>6, <1>7, <1>8, <1>11, <1>12, <1>15, <1>16, <1>17, <1>18, AtAgentKept
        DEF Standing, Streaming

LEMMA AcceptKeeps ==
    ASSUME IInv, Accept PROVE IInv'
<1> DEFINE c == Head(backlog)
           t == Tail(backlog)
<1>1. /\ agent.mode = "accept" /\ backlog # <<>> /\ backlog' = t
      /\ agent' = [Accepting EXCEPT !.mode = "request", !.conn = c]
      /\ UNCHANGED <<call, rx, got, up, down, dropped, child, typed>>
  BY DEF Accept, hostVars
<1>2. Types /\ Placed /\ agent.conn = NoCall /\ NoCall \notin Calls
  BY <1>1, CallsAssumption DEF IInv, AgentModes, Calls
<1>3. /\ backlog \in Seq(Calls) /\ c \in Calls /\ c = backlog[1] /\ 1 \in 1..Len(backlog)
      /\ t \in Seq(Calls) /\ Len(t) = Len(backlog) - 1 /\ Len(backlog) \in Nat
      /\ \A i \in 1..Len(t) : t[i] = backlog[i + 1]
  BY <1>1, <1>2, EntryTypes, HeadTailProperties DEF Types, WireTypes
<1> HIDE DEF c, t
<1>4. /\ agent' \in AgentRecs /\ agent'.mode = "request" /\ agent'.conn = c /\ agent'.len = FALSE
  <2>1. /\ Accepting \in AgentRecs /\ Accepting.len = FALSE
    <3>1. Exit \in Responses \cup Requests
      BY Marks
    <3> QED BY <3>1 DEF Accepting, AgentRecs, Modes
  <2> HIDE DEF Accepting
  <2> QED BY <1>1, <1>3, <2>1 DEF AgentRecs, Modes
<1>5. Types'
  BY <1>1, <1>2, <1>3, <1>4 DEF Types, HostTypes, WireTypes, GuestTypes
<1>6. child[c].state = "none" /\ c \notin dropped /\ call[c].pc # "idle" /\ c # NoCall
  BY <1>2, <1>3 DEF Placed
<1>7. AgentModes' /\ WriteModes'
  BY <1>1, <1>3, <1>4, <1>6 DEF AgentModes, WriteModes, Runs, Busy
<1>8. Placed'
  <2>1. \A i \in 1..Len(t) : i + 1 \in 1..Len(backlog) /\ i + 1 # 1
    BY <1>3
  <2>2. ASSUME NEW i \in 1..Len(t), NEW j \in 1..Len(t), t[i] = t[j] PROVE i = j
    <3>1. i + 1 = j + 1
      BY <1>2, <1>3, <2>1, <2>2 DEF Placed
    <3> QED BY <3>1
  <2>3. \A i \in 1..Len(t) :
           t[i] # c /\ t[i] \notin dropped /\ call[t[i]].pc # "idle" /\ child[t[i]].state = "none"
    BY <1>2, <1>3, <2>1 DEF Placed
  <2> QED BY <1>1, <1>4, <1>6, <2>2, <2>3 DEF Placed
<1>9. ASSUME NEW d \in Calls PROVE Standing(d)' /\ Streaming(d)'
  <2>1. Quiet(d) /\ Standing(d) /\ Streaming(d)
    BY <1>1 DEF Quiet, IInv
  <2>2. Pending(d)' = Pending(d) /\ Typing(d)' = Typing(d) /\ First(d)' = First(d)
    BY <1>1, <1>2, <1>4 DEF Pending, Typing, First
  <2>3. Line(d)' = Line(d)
    BY <1>1, <2>2 DEF Line, HostOpen
  <2>4. ~Busy(d)'
    BY <1>4 DEF Busy, Runs
  <2>5. Bounds(d)' /\ (call[d].pc = "idle" => down'[d] = <<>>)
    BY <1>1, <2>1 DEF Standing, Bounds, Fresh
  <2> QED BY <2>1, <2>2, <2>3, <2>4, <2>5, QuietKept
<1> QED BY <1>5, <1>7, <1>8, <1>9 DEF IInv

LEMMA Becomes ==
    ASSUME Types, NEW m \in Modes, Become(m)
    PROVE  /\ agent' \in AgentRecs /\ agent'.mode = m /\ agent'.len = FALSE
           /\ agent'.conn = agent.conn /\ agent'.msg = agent.msg /\ agent'.next = agent.next
BY DEF Types, GuestTypes, Become, AgentRecs

LEMMA Responds ==
    ASSUME Types, NEW msg \in Responses, NEW next \in {"request", "exec", "shell"},
           Respond(msg, next)
    PROVE  /\ agent' \in AgentRecs /\ agent'.mode = "write" /\ agent'.len = FALSE
           /\ agent'.conn = agent.conn /\ agent'.msg = msg /\ agent'.next = next
BY DEF Types, GuestTypes, Respond, AgentRecs, Modes

LEMMA UpTail ==
    ASSUME Types, NEW c \in Calls, up[c] # <<>>, up' = [up EXCEPT ![c] = Tail(up[c])]
    PROVE  /\ up' \in [Calls -> Seq(Requests)] /\ up'[c] = Tail(up[c])
           /\ \A d \in Calls \ {c} : up'[d] = up[d]
           /\ Len(up[c]) \in Nat \ {0} /\ Len(up'[c]) = Len(up[c]) - 1
           /\ \A i \in 1..Len(up'[c]) : up'[c][i] = up[c][i + 1] /\ i + 1 \in 1..Len(up[c])
           /\ Head(up[c]) \in Requests /\ Head(up[c]) = up[c][1] /\ 1 \in 1..Len(up[c])
           /\ up[c] \in Seq(Requests)
<1>1. up \in [Calls -> Seq(Requests)] /\ up[c] \in Seq(Requests)
  BY DEF Types, WireTypes
<1>2. /\ Tail(up[c]) \in Seq(Requests) /\ Len(Tail(up[c])) = Len(up[c]) - 1
      /\ Len(up[c]) \in Nat \ {0} /\ 1 \in 1..Len(up[c])
      /\ \A i \in 1..Len(Tail(up[c])) : Tail(up[c])[i] = up[c][i + 1]
      /\ Head(up[c]) \in Requests /\ Head(up[c]) = up[c][1]
  BY <1>1, EntryTypes, EmptySeq, HeadTailProperties
<1>3. /\ up' \in [Calls -> Seq(Requests)] /\ up'[c] = Tail(up[c])
      /\ \A d \in Calls \ {c} : up'[d] = up[d]
  BY <1>1, <1>2, ChannelStep
<1>4. ASSUME NEW i \in 1..Len(up'[c]) PROVE i + 1 \in 1..Len(up[c])
  BY <1>2, <1>3
<1> QED BY <1>1, <1>2, <1>3, <1>4

\* A request that is no input is taken from those on their way, or left there.
LEMMA EnteredTail ==
    ASSUME Types, NEW c \in Calls, Entered(c), HostModes(c), up[c] # <<>>,
           up'[c] = Tail(up[c]), Typing(c) = <<>>, Typing(c)' = <<>>, Head(up[c])[1] # "Input",
           call'[c] = call[c], typed'[c] = typed[c], c \in dropped' <=> c \in dropped,
           child[c].state = "reaped" => child'[c].state = "reaped"
    PROVE  Entered(c)'
<1>1. Framed(c)' = Framed(c) /\ Framed(c) \in Nat /\ Len(typed[c]) \in Nat
  BY CallTypes DEF Framed, HostModes
<1>2. up[c] \in Seq(Requests) /\ Tail(up[c]) \in Seq(Requests)
      /\ <<>> \o up[c] = up[c] /\ <<>> \o Tail(up[c]) = Tail(up[c])
  BY CallTypes, HeadTailProperties, ConcatEmptySeq
<1>3. \A x \in Requests : x = <<x[1], x[2]>> /\ x[2] \in Nat
  BY RequestTypes
<1>4. ASSUME Ordered(up[c], "Input", Len(typed[c]), Framed(c))
      PROVE  /\ Ordered(Tail(up[c]), "Input", Len(typed[c]), Framed(c))
             /\ Complete(up[c], "Input", Len(typed[c]), Framed(c)) =>
                   Complete(Tail(up[c]), "Input", Len(typed[c]), Framed(c))
  BY <1>1, <1>2, <1>3, <1>4, OrderedTail
<1> QED BY <1>1, <1>2, <1>4 DEF Entered

\* The streams of the responses, when only a request is taken.
LEMMA StreamQuiet ==
    ASSUME NEW c \in Calls, Delivered(c), LastComesLast(c), Collected(c),
           call'[c] = call[c], rx'[c] = rx[c], got'[c] = got[c],
           child'[c].state = child[c].state, child'[c].read = child[c].read,
           Line(c)' = Line(c), Busy(c)' => Busy(c)
    PROVE  Delivered(c)' /\ LastComesLast(c)' /\ Collected(c)'
<1>1. HostOpen(c)' <=> HostOpen(c)
  BY DEF HostOpen
<1>2. Delivered(c)'
  BY <1>1 DEF Delivered
<1>3. LastComesLast(c)'
  BY DEF LastComesLast
<1>4. Collected(c)'
  BY DEF Collected
<1> QED BY <1>2, <1>3, <1>4

LEMMA ReadLengthKeeps ==
    ASSUME IInv, NEW c \in Calls, c = agent.conn, ReadLength PROVE IInv'
<1>1. /\ agent.mode \in {"request", "shell"} /\ ~agent.len /\ up[c] # <<>>
      /\ UNCHANGED <<call, rx, got, down, backlog, typed>>
      /\ IF Head(up[c]) = Length
         THEN /\ up' = [up EXCEPT ![c] = Tail(up[c])]
              /\ agent' = [agent EXCEPT !.len = TRUE]
              /\ UNCHANGED <<dropped, child>>
         ELSE Hangup
  BY DEF ReadLength, Reading, hostVars
<1>2. Types /\ c # NoCall /\ c \notin dropped /\ call[c].pc # "idle"
      /\ Standing(c) /\ Streaming(c)
  BY <1>1, Served DEF IInv
<1>3. CASE Head(up[c]) # Length
  BY <1>1, <1>2, <1>3, HangupKeeps
<1>4. CASE Head(up[c]) = Length
  <2>1. /\ up' = [up EXCEPT ![c] = Tail(up[c])] /\ agent' = [agent EXCEPT !.len = TRUE]
        /\ UNCHANGED <<dropped, child>>
    BY <1>1, <1>4
  <2>2. /\ up' \in [Calls -> Seq(Requests)] /\ up'[c] = Tail(up[c])
        /\ \A d \in Calls \ {c} : up'[d] = up[d]
        /\ Len(up[c]) \in Nat \ {0} /\ Len(up'[c]) = Len(up[c]) - 1
        /\ \A i \in 1..Len(up'[c]) : up'[c][i] = up[c][i + 1] /\ i + 1 \in 1..Len(up[c])
        /\ Head(up[c]) = up[c][1]
    BY <1>1, <1>2, <2>1, UpTail
  <2>3. /\ agent' \in AgentRecs /\ agent'.mode = agent.mode /\ agent'.conn = agent.conn
        /\ agent'.len = TRUE /\ agent'.msg = agent.msg /\ agent'.next = agent.next
    BY <1>2, <2>1 DEF Types, GuestTypes, AgentRecs
  <2>4. Types'
    BY <1>1, <1>2, <2>1, <2>2, <2>3 DEF Types, HostTypes, WireTypes, GuestTypes
  <2>5. AtAgent(c)
    BY <1>1, <2>1, <2>2, <2>3 DEF AtAgent
  <2>6. AgentModes' /\ WriteModes'
    BY <1>1, <2>1, <2>3 DEF IInv, AgentModes, WriteModes, Runs, Busy
  <2>7. Bounds(c)' /\ HostModes(c)' /\ Fresh(c)'
    BY <1>1, <1>2, <2>1 DEF Standing, Bounds, HostModes, Fresh
  <2>8. First(c) = 2 /\ First(c)' = 1
    BY <1>1, <2>3 DEF First
  <2>9. Opened(c) => Opened(c)'
    <3>1. CASE child[c].state # "none"
      BY <2>1, <3>1 DEF Opened
    <3>2. ASSUME child[c].state = "none", Opened(c) PROVE Opened(c)'
      <4>1. 2 <= Len(up[c]) /\ up[c][2] = <<Kind(c), 0>>
        BY <2>8, <3>2 DEF Opened
      <4>2. 1 \in 1..Len(up'[c])
        BY <2>2, <4>1
      <4>3. 1 <= Len(up'[c]) /\ up'[c][1] = <<Kind(c), 0>>
        BY <2>2, <4>1, <4>2
      <4> QED BY <2>8, <4>3 DEF Opened
    <3> QED BY <3>1, <3>2
  <2>10. Opening(c)'
    <3>1. ASSUME NEW i \in 1..Len(up'[c])
          PROVE  /\ up'[c][i][1] \in {"Input", "CloseShell"} => Opened(c)
                 /\ up'[c][i][1] \in {"Exec", "OpenShell"} => 
                       child[c].state = "none" /\ i = 1 /\ Opened(c)
      <4>1. up'[c][i] = up[c][i + 1] /\ i + 1 \in 1..Len(up[c])
        BY <2>2
      <4>2. i + 1 = 2 => i = 1
        BY <4>1
      <4> QED BY <1>2, <2>8, <4>1, <4>2 DEF Standing, Opening
    <3>2. call[c].pc \in {"open", "closing"} => Opened(c)
      BY <1>2 DEF Standing, Opening
    <3> QED BY <1>1, <2>1, <2>8, <2>9, <3>1, <3>2 DEF Opening
  <2>11. Pending(c)' = Pending(c) /\ Typing(c) = <<>> /\ Typing(c)' = <<>>
    BY <1>1, <2>3 DEF Pending, Typing
  <2>12. Line(c)' = Line(c) /\ (Busy(c)' => Busy(c))
    BY <1>1, <2>3, <2>11 DEF Line, HostOpen, Busy, Runs
  <2>13. Delivered(c)' /\ LastComesLast(c)' /\ Collected(c)'
    BY <1>1, <1>2, <2>1, <2>12, StreamQuiet DEF Streaming
  <2>14. Entered(c)'
    BY <1>1, <1>2, <1>4, <2>1, <2>2, <2>11, RequestMarks, EnteredTail DEF Standing, Streaming
  <2> QED BY <1>2, <2>4, <2>5, <2>6, <2>7, <2>10, <2>13, <2>14, AtAgentKept DEF Standing, Streaming
<1> QED BY <1>3, <1>4

\* When the child has been started, no request is left that would start another.
LEMMA OpeningStarted ==
    ASSUME Types, NEW c \in Calls, Opening(c), c \notin dropped, up[c] # <<>>,
           up' = [up EXCEPT ![c] = Tail(up[c])], child'[c].state # "none",
           child[c].state # "none" \/ First(c) = 1
    PROVE  Opening(c)'
<1>1. Opened(c)'
  BY DEF Opened
<1>2. /\ up'[c] = Tail(up[c]) /\ Len(up[c]) \in Nat \ {0}
      /\ \A i \in 1..Len(up'[c]) : up'[c][i] = up[c][i + 1] /\ i + 1 \in 1..Len(up[c])
  BY UpTail
<1>3. ASSUME NEW i \in 1..Len(up'[c]) PROVE up'[c][i][1] \notin {"Exec", "OpenShell"}
  <2>1. i + 1 # 1
    OBVIOUS
  <2> QED BY <1>2, <2>1 DEF Opening
<1> QED BY <1>1, <1>3 DEF Opening

LEMMA StartChildKeeps ==
    ASSUME IInv, NEW c \in Calls, c = agent.conn, StartChild PROVE IInv'
<1> DEFINE m == IF c \in Execs THEN "exec" ELSE "shell"
<1>1. /\ agent.mode = "request" /\ agent.len /\ up[c] # <<>> /\ Head(up[c])[1] = Kind(c)
      /\ UNCHANGED <<call, rx, got, down, backlog, typed>>
      /\ \/ /\ up' = [up EXCEPT ![c] = Tail(up[c])]
            /\ child' = [child EXCEPT ![c].state = "running"]
            /\ Become(m) /\ UNCHANGED dropped
         \/ Hangup
  BY DEF StartChild, Requested, TakeRequest, hostVars
<1>2. Types /\ c # NoCall /\ c \notin dropped /\ call[c].pc # "idle"
      /\ Standing(c) /\ Streaming(c)
  BY <1>1, Served DEF IInv
<1>3. CASE Hangup
  BY <1>1, <1>2, <1>3, HangupKeeps
<1>4. CASE /\ up' = [up EXCEPT ![c] = Tail(up[c])]
           /\ child' = [child EXCEPT ![c].state = "running"]
           /\ Become(m) /\ UNCHANGED dropped
  <2>1. /\ up' \in [Calls -> Seq(Requests)] /\ up'[c] = Tail(up[c])
        /\ \A d \in Calls \ {c} : up'[d] = up[d]
        /\ Head(up[c]) = up[c][1] /\ 1 \in 1..Len(up[c])
    BY <1>1, <1>2, <1>4, UpTail
  <2>2. m \in Modes /\ m \in {"exec", "shell"}
    BY DEF Modes
  <2>3. /\ agent' \in AgentRecs /\ agent'.mode = m /\ agent'.len = FALSE
        /\ agent'.conn = agent.conn /\ agent'.msg = agent.msg /\ agent'.next = agent.next
    BY <1>2, <1>4, <2>2, Becomes
  <2>4. /\ child' \in [Calls -> ChildRecs]
        /\ child'[c].state = "running" /\ child'[c].read = child[c].read
        /\ child'[c].unread = child[c].unread /\ child'[c].held = child[c].held
        /\ \A d \in Calls \ {c} : child'[d] = child[d]
    BY <1>2, <1>4 DEF Types, GuestTypes, ChildRecs, ChildStates
  <2>5. Types'
    BY <1>1, <1>2, <1>4, <2>1, <2>3, <2>4 DEF Types, HostTypes, WireTypes, GuestTypes
  <2>6. AtAgent(c)
    BY <1>1, <1>4, <2>1, <2>3, <2>4 DEF AtAgent
  <2>7. Kind(c) \in {"Exec", "OpenShell"} /\ Kind(c) # "Input"
    BY DEF Kind
  <2>8. child[c].state = "none" /\ First(c) = 1
    BY <1>1, <1>2, <2>1, <2>7 DEF Standing, Opening, First
  <2>9. AgentModes' /\ WriteModes'
    <3>1. c \in Execs \/ c \in Shells
      BY <1>2 DEF Calls
    <3> HIDE DEF m
    <3>2. m = "exec" => c \in Execs
      BY DEF m
    <3>3. m = "shell" => c \in Shells
      BY <3>1 DEF m
    <3> QED BY <1>2, <2>2, <2>3, <2>4, <3>2, <3>3 DEF AgentModes, WriteModes, Runs, Busy
  <2>10. Bounds(c)' /\ HostModes(c)' /\ Fresh(c)'
    BY <1>1, <1>2, <1>4, <2>4 DEF Standing, Bounds, HostModes, Fresh
  <2>11. Opening(c)'
    BY <1>1, <1>2, <1>4, <2>4, <2>8, OpeningStarted DEF Standing
  <2>12. Pending(c)' = Pending(c) /\ Typing(c) = <<>> /\ Typing(c)' = <<>>
    BY <1>1, <2>2, <2>3 DEF Pending, Typing
  <2>13. Line(c)' = Line(c) /\ (HostOpen(c)' <=> HostOpen(c))
    BY <1>1, <2>12 DEF Line, HostOpen
  <2>14. Delivered(c)'
    BY <1>1, <1>2, <2>4, <2>13 DEF Streaming, Delivered
  <2>15. LastComesLast(c)'
    BY <1>1, <1>2, <2>8, <2>13 DEF Streaming, LastComesLast
  <2>16. Collected(c)'
    BY <1>1, <1>2, <2>4, <2>8 DEF Streaming, Collected
  <2>17. Entered(c)'
    BY <1>1, <1>2, <1>4, <2>1, <2>7, <2>8, <2>12, EnteredTail DEF Standing, Streaming
  <2> QED BY <1>2, <2>5, <2>6, <2>9, <2>10, <2>11, <2>14, <2>15, <2>16, <2>17, AtAgentKept
          DEF Standing, Streaming
<1> QED BY <1>1, <1>3, <1>4

\* Inputs that the agent ignores come after a shell that is over: none is for an exec.
LEMMA IgnoreInputKeeps ==
    ASSUME IInv, NEW c \in Calls, c = agent.conn, IgnoreInput PROVE IInv'
<1>1. /\ agent.mode = "request" /\ agent.len /\ up[c] # <<>>
      /\ Head(up[c])[1] \in {"Input", "CloseShell"}
      /\ up' = [up EXCEPT ![c] = Tail(up[c])] /\ Become("request")
      /\ UNCHANGED <<call, rx, got, down, backlog, dropped, child, typed>>
  BY DEF IgnoreInput, Requested, TakeRequest, hostVars
<1>2. Types /\ c # NoCall /\ c \notin dropped /\ call[c].pc # "idle" /\ Standing(c) /\ Streaming(c)
  BY <1>1, Served DEF IInv
<1>3. /\ up' \in [Calls -> Seq(Requests)] /\ up'[c] = Tail(up[c])
      /\ \A d \in Calls \ {c} : up'[d] = up[d]
      /\ Head(up[c]) = up[c][1] /\ 1 \in 1..Len(up[c])
  BY <1>1, <1>2, UpTail
<1>4. /\ agent' \in AgentRecs /\ agent'.mode = "request" /\ agent'.len = FALSE
      /\ agent'.conn = agent.conn /\ agent'.msg = agent.msg /\ agent'.next = agent.next
  <2>1. "request" \in Modes
    BY DEF Modes
  <2> QED BY <1>1, <1>2, <2>1, Becomes
<1>5. Types'
  BY <1>1, <1>2, <1>3, <1>4 DEF Types, HostTypes, WireTypes, GuestTypes
<1>6. AtAgent(c)
  BY <1>1, <1>3, <1>4 DEF AtAgent
<1>7. AgentModes' /\ WriteModes'
  BY <1>1, <1>2, <1>4 DEF IInv, AgentModes, WriteModes, Runs, Busy
<1>8. child[c].state # "none"
  <2>1. Opened(c)
    BY <1>1, <1>2, <1>3 DEF Standing, Opening
  <2>2. First(c) = 1
    BY <1>1 DEF First
  <2>3. <<Kind(c), 0>>[1] = Kind(c) /\ Kind(c) \notin {"Input", "CloseShell"}
    BY DEF Kind
  <2> QED BY <1>1, <1>3, <2>1, <2>2, <2>3 DEF Opened
<1>9. Bounds(c)' /\ HostModes(c)' /\ Fresh(c)'
  BY <1>1, <1>2, <1>4 DEF Standing, Bounds, HostModes, Fresh
<1>10. Opening(c)'
  BY <1>1, <1>2, <1>8, OpeningStarted DEF Standing
<1>11. Pending(c)' = Pending(c) /\ Typing(c) = <<>> /\ Typing(c)' = <<>>
  BY <1>1, <1>4 DEF Pending, Typing
<1>12. Line(c)' = Line(c) /\ ~Busy(c)'
  BY <1>1, <1>4, <1>11 DEF Line, HostOpen, Busy, Runs
<1>13. Delivered(c)' /\ LastComesLast(c)' /\ Collected(c)'
  BY <1>1, <1>2, <1>12, StreamQuiet DEF Streaming
<1>14. Entered(c)'
  <2>1. CASE child[c].state = "reaped"
    <3>1. Framed(c)' = Framed(c)
      BY <1>1 DEF Framed
    <3> QED BY <1>1, <1>2, <2>1, <3>1 DEF Streaming, Entered
  <2>2. CASE child[c].state # "reaped"
    <3>1. c \in Execs
      BY <1>1, <1>2, <1>8, <2>2 DEF IInv, AgentModes, Runs, Calls
    <3>2. Framed(c) = 0
      BY <1>2, <3>1, CallsAssumption DEF Standing, HostModes, Framed
    <3>3. Ordered(up[c], "Input", Len(typed[c]), 0)
      <4>1. Typing(c) \o up[c] = up[c]
        BY <1>2, <1>11, CallTypes, ConcatEmptySeq
      <4> QED BY <1>2, <2>2, <3>2, <4>1 DEF Streaming, Entered
    <3>4. Head(up[c])[1] # "Input"
      <4>1. Len(typed[c]) \in Nat /\ up[c] \in Seq(Requests)
        BY <1>2, CallTypes
      <4>2. \A x \in Requests : x = <<x[1], x[2]>> /\ x[2] \in Nat
        BY RequestTypes
      <4> DEFINE lo == Len(typed[c])
      <4>3. lo \in Nat /\ ~(lo + 1 <= 0)
        BY <4>1
      <4> HIDE DEF lo
      <4>4. Ordered(up[c], "Input", lo, 0)
        BY <3>3 DEF lo
      <4>5. Head(up[c])[1] = "Input" => lo + 1 <= 0
        BY <1>1, <4>1, <4>2, <4>3, <4>4, OrderedTail, SMTT(30)
      <4> QED BY <4>3, <4>5
    <3> QED BY <1>1, <1>2, <1>3, <1>11, <3>4, EnteredTail DEF Standing, Streaming
  <2> QED BY <2>1, <2>2
<1> QED BY <1>5, <1>6, <1>7, <1>9, <1>10, <1>13, <1>14, AtAgentKept DEF Standing, Streaming

\* A step that only takes the agent to another mode, in which it does not write.
LEMMA BecomeKeeps ==
    ASSUME IInv, NEW c \in Calls, c = agent.conn, NEW m \in Modes \ {"write", "accept", "type"},
           Become(m), UNCHANGED <<call, rx, got, up, backlog, dropped, child, typed>>,
           down' \in [Calls -> Seq(Responses)], Len(down'[c]) <= Buffer,
           \A d \in Calls \ {c} : down'[d] = down[d],
           AgentModes', ~agent.len, agent.mode \notin {"accept", "type"},
           Line(c)' = Line(c), Busy(c)' => Busy(c)
    PROVE  IInv'
<1>1. Types /\ c # NoCall /\ c \notin dropped /\ call[c].pc # "idle" /\ Standing(c) /\ Streaming(c)
  BY Served DEF IInv
<1>2. /\ agent' \in AgentRecs /\ agent'.mode = m /\ agent'.len = FALSE
      /\ agent'.conn = agent.conn
  BY <1>1, Becomes
<1>3. Types'
  BY <1>1, <1>2 DEF Types, HostTypes, WireTypes, GuestTypes
<1>4. AtAgent(c)
  BY <1>2 DEF AtAgent
<1>5. WriteModes'
  BY <1>2 DEF WriteModes
<1>6. Typing(c)' = Typing(c) /\ First(c)' = First(c)
  BY <1>2 DEF Typing, First
<1>7. Bounds(c)'
  BY <1>1 DEF Standing, Bounds
<1>8. Quiet(c)
  BY DEF Quiet
<1> QED BY <1>1, <1>3, <1>4, <1>5, <1>6, <1>7, <1>8, QuietKept, AtAgentKept

LEMMA ReadEofKeeps ==
    ASSUME IInv, NEW c \in Calls, c = agent.conn, ReadEof PROVE IInv'
<1>1. /\ agent.mode \in {"request", "shell"} /\ ~HostOpen(c)
      /\ UNCHANGED <<call, rx, got, down, backlog, typed>>
      /\ \/ /\ agent.mode = "shell" /\ ~agent.len /\ Become("cleanup")
            /\ UNCHANGED <<up, dropped, child>>
         \/ Hangup
  BY DEF ReadEof, Reading, hostVars
<1>2. CASE Hangup
  BY <1>1, <1>2, HangupKeeps
<1>3. CASE /\ agent.mode = "shell" /\ ~agent.len /\ Become("cleanup")
           /\ UNCHANGED <<up, dropped, child>>
  <2>1. Types /\ c # NoCall /\ Standing(c)
    BY <1>3, Served DEF IInv
  <2>2. "cleanup" \in Modes \ {"write", "accept", "type"}
    BY DEF Modes
  <2>3. agent'.mode = "cleanup" /\ agent'.len = FALSE /\ agent'.conn = agent.conn
    BY <1>3, <2>1, <2>2, Becomes
  <2>4. AgentModes'
    BY <1>3, <2>1, <2>3 DEF IInv, AgentModes, Runs, Busy
  <2>5. Line(c)' = Line(c) /\ Busy(c)
    BY <1>1, <1>3, <2>3 DEF Line, HostOpen, Busy, Runs
  <2>6. down' \in [Calls -> Seq(Responses)] /\ Len(down'[c]) <= Buffer
    BY <1>1, <2>1 DEF Types, WireTypes, Standing, Bounds
  <2> QED BY <1>1, <1>3, <2>2, <2>4, <2>5, <2>6, BecomeKeeps
<1> QED BY <1>1, <1>2, <1>3

\* A response is handed to the connection, or lost with it.
LEMMA WriteKeeps ==
    ASSUME IInv, NEW c \in Calls, c = agent.conn, Write PROVE IInv'
<1>1. /\ agent.mode = "write" /\ UNCHANGED <<call, rx, got, backlog, typed>>
      /\ \/ /\ HostOpen(c) /\ Len(down[c]) < Buffer
            /\ down' = [down EXCEPT ![c] = Append(down[c], agent.msg)]
            /\ Become(agent.next) /\ UNCHANGED <<up, dropped, child>>
         \/ ~HostOpen(c) /\ Become(agent.next) /\ UNCHANGED <<up, down, dropped, child>>
         \/ ~HostOpen(c) /\ Hangup /\ UNCHANGED down
  BY DEF Write, hostVars
<1>2. Types /\ c # NoCall /\ Standing(c)
  BY <1>1, Served DEF IInv
<1>3. /\ agent.next \in Modes \ {"write", "accept", "type"} /\ agent.msg \in Responses
      /\ agent.next \in {"request", "exec", "shell"}
  BY <1>1, <1>2, AgentTypes DEF IInv, WriteModes, Modes
<1>4. down[c] \in Seq(Responses) /\ rx[c] \in Seq(Responses) /\ Len(down[c]) \in Nat
  BY <1>2, CallTypes, EntryTypes
<1>5. ASSUME Become(agent.next), UNCHANGED <<up, dropped, child>>
      PROVE  /\ AgentModes' /\ ~agent.len /\ (Busy(c)' => Busy(c)) /\ Pending(c)' = <<>>
             /\ HostOpen(c)' <=> HostOpen(c)
  <2>1. agent'.mode = agent.next /\ agent'.len = FALSE /\ agent'.conn = agent.conn
    BY <1>2, <1>3, <1>5, Becomes
  <2>2. AgentModes'
    BY <1>1, <1>2, <1>3, <1>5, <2>1 DEF IInv, AgentModes, Runs, Busy
  <2>3. Busy(c)' => Busy(c)
    BY <1>1, <1>3, <2>1 DEF Busy, Runs
  <2>4. ~agent.len
    BY <1>1 DEF IInv, AgentModes
  <2>5. Pending(c)' = <<>>
    BY <1>3, <2>1 DEF Pending
  <2> QED BY <1>1, <2>2, <2>3, <2>4, <2>5 DEF HostOpen
<1>6. CASE ~HostOpen(c) /\ Hangup /\ UNCHANGED down
  BY <1>1, <1>6, HangupKeeps
<1>7. CASE ~HostOpen(c) /\ Become(agent.next) /\ UNCHANGED <<up, down, dropped, child>>
  <2>1. /\ AgentModes' /\ ~agent.len /\ (Busy(c)' => Busy(c)) /\ ~HostOpen(c)'
    BY <1>5, <1>7
  <2>2. Line(c)' = Line(c)
    BY <1>1, <1>7, <2>1 DEF Line
  <2>3. down' \in [Calls -> Seq(Responses)] /\ Len(down'[c]) <= Buffer
    BY <1>7, <1>2 DEF Types, WireTypes, Standing, Bounds
  <2> QED BY <1>1, <1>3, <1>7, <2>1, <2>2, <2>3, BecomeKeeps
<1>8. CASE /\ HostOpen(c) /\ Len(down[c]) < Buffer
           /\ down' = [down EXCEPT ![c] = Append(down[c], agent.msg)]
           /\ Become(agent.next) /\ UNCHANGED <<up, dropped, child>>
  <2>1. /\ AgentModes' /\ ~agent.len /\ (Busy(c)' => Busy(c)) /\ HostOpen(c)' /\ Pending(c)' = <<>>
    BY <1>5, <1>8
  <2>2. Append(down[c], agent.msg) \in Seq(Responses) /\ Len(Append(down[c], agent.msg)) = Len(down[c]) + 1
    BY <1>3, <1>4, AppendProperties
  <2>3. /\ down' \in [Calls -> Seq(Responses)] /\ down'[c] = Append(down[c], agent.msg)
        /\ \A d \in Calls \ {c} : down'[d] = down[d]
    BY <1>2, <1>8, <2>2, ChannelStep DEF Types, WireTypes
  <2>4. Len(down'[c]) <= Buffer
    BY <1>4, <1>8, <2>2, <2>3, BoundsAssumption
  <2>5. Line(c)' = Line(c)
    <3>1. Pending(c) = <<agent.msg>>
      BY <1>1 DEF Pending
    <3>2. rx[c] \o (Append(down[c], agent.msg) \o <<>>) = rx[c] \o (down[c] \o <<agent.msg>>)
      <4>1. Append(down[c], agent.msg) = down[c] \o <<agent.msg>>
        BY <1>3, <1>4, AppendIsConcat
      <4>2. Append(down[c], agent.msg) \o <<>> = Append(down[c], agent.msg)
        BY <2>2, ConcatEmptySeq
      <4> QED BY <4>1, <4>2
    <3> QED BY <1>1, <1>8, <2>1, <2>3, <3>1, <3>2 DEF Line
  <2> QED BY <1>1, <1>3, <1>8, <2>1, <2>3, <2>4, <2>5, BecomeKeeps
<1> QED BY <1>1, <1>6, <1>7, <1>8

\* While the child is served, no last response is on its way.
LEMMA NoMarks ==
    ASSUME Types, WriteModes, NEW c \in Calls, LastComesLast(c), call[c].listening, Busy(c)
    PROVE  /\ \A i \in 1..Len(Line(c)) : Line(c)[i] \notin {Exit, ShellClosed}
           /\ ~EndsInExit(Line(c))
<1>1. \A i \in 1..Len(Line(c)) : Line(c)[i] \notin {Exit, ShellClosed}
  BY DEF LastComesLast
<1>2. Line(c) # <<>> => Len(Line(c)) \in 1..Len(Line(c))
  BY LineTypes, EntryTypes
<1> QED BY <1>1, <1>2 DEF EndsInExit

\* The response that is written comes after those on their way.
LEMMA RespondLine ==
    ASSUME Types, WriteModes, NEW c \in Calls, agent.conn = c, agent.mode # "write",
           NEW e \in Responses, agent'.mode = "write", agent'.conn = c, agent'.msg = e,
           UNCHANGED <<call, rx, down>>
    PROVE  /\ HostOpen(c)' <=> HostOpen(c)
           /\ Line(c) \in Seq(Responses)
           /\ HostOpen(c) => Line(c)' = Append(Line(c), e)
           /\ ~HostOpen(c) => Line(c)' = Line(c)
<1>1. HostOpen(c)' <=> HostOpen(c)
  BY DEF HostOpen
<1>2. Line(c) \in Seq(Responses)
  BY LineTypes
<1>3. Pending(c) = <<>> /\ Pending(c)' = <<e>>
  BY DEF Pending
<1>4. HostOpen(c) => Line(c)' = Append(Line(c), e)
  <2>1. rx[c] \in Seq(Responses) /\ down[c] \in Seq(Responses) /\ <<e>> \in Seq(Responses)
    BY CallTypes, OneTypes
  <2>2. /\ rx[c] \o down[c] \in Seq(Responses) /\ down[c] \o <<>> = down[c]
        /\ rx[c] \o (down[c] \o <<e>>) = (rx[c] \o down[c]) \o <<e>>
    <3>1. rx[c] \o down[c] \in Seq(Responses)
      BY <2>1, ConcatProperties
    <3>2. down[c] \o <<>> = down[c]
      BY <2>1, ConcatEmptySeq
    <3>3. rx[c] \o (down[c] \o <<e>>) = (rx[c] \o down[c]) \o <<e>>
      <4>1. ASSUME NEW a \in Seq(Responses), NEW b \in Seq(Responses), NEW d \in Seq(Responses)
            PROVE  a \o (b \o d) = (a \o b) \o d
        BY ConcatAssociative
      <4> QED BY <2>1, <4>1, Zenon
    <3> QED BY <3>1, <3>2, <3>3
  <2>3. (rx[c] \o down[c]) \o <<e>> = Append(rx[c] \o down[c], e)
    BY <2>2, AppendIsConcat
  <2> QED BY <1>1, <1>3, <2>2, <2>3 DEF Line
<1>5. ~HostOpen(c) => Line(c)' = Line(c)
  BY <1>1 DEF Line
<1> QED BY <1>1, <1>2, <1>4, <1>5

\* The last response is written when the child is no longer served.
LEMMA LastStream ==
    ASSUME Types, WriteModes, NEW c \in Calls, agent.conn = c, agent.mode # "write",
           NEW e \in {Exit, ShellClosed},
           agent'.mode = "write", agent'.conn = c, agent'.msg = e,
           UNCHANGED <<call, rx, got, down>>, Busy(c), ~Busy(c)',
           Delivered(c), LastComesLast(c), Collected(c),
           child'[c].read = child[c].read,
           e = Exit => c \in Execs /\ child'[c].state = "exited",
           e = ShellClosed => child'[c].state = "reaped"
    PROVE  Delivered(c)' /\ LastComesLast(c)' /\ Collected(c)'
<1>1. e \in Responses /\ e[1] \notin Streams
  BY Marks
<1>2. /\ HostOpen(c)' <=> HostOpen(c)
      /\ Line(c) \in Seq(Responses)
      /\ HostOpen(c) => Line(c)' = Append(Line(c), e)
      /\ ~HostOpen(c) => Line(c)' = Line(c)
  BY <1>1, RespondLine
<1>3. Collected(c)'
  BY DEF Collected
<1>4. Delivered(c)'
  <2>1. ASSUME call[c].listening, NEW s \in Streams
        PROVE  /\ Ordered(Line(c)', s, Len(got[c][s]), child[c].read[s])
               /\ HostOpen(c) \/ EndsInExit(Line(c)') =>
                     Complete(Line(c)', s, Len(got[c][s]), child[c].read[s])
    <3>1. /\ Ordered(Line(c), s, Len(got[c][s]), child[c].read[s])
          /\ HostOpen(c) \/ EndsInExit(Line(c)) =>
                Complete(Line(c), s, Len(got[c][s]), child[c].read[s])
      BY <2>1 DEF Delivered
    <3>2. CASE HostOpen(c)
      <4>1. Len(got[c][s]) \in Nat /\ child[c].read[s] \in Nat /\ e[1] # s
        BY <1>1, CallTypes, ChildTypes
      <4>2. \A x \in Responses : x = <<x[1], x[2]>> /\ x[2] \in Nat
        BY ResponseTypes
      <4>3. /\ Ordered(Append(Line(c), e), s, Len(got[c][s]), child[c].read[s])
            /\ Complete(Append(Line(c), e), s, Len(got[c][s]), child[c].read[s])
        BY <1>1, <1>2, <3>1, <3>2, <4>1, <4>2, OrderedAppend
      <4> QED BY <1>2, <3>2, <4>3
    <3>3. CASE ~HostOpen(c)
      BY <1>2, <3>1, <3>3
    <3> QED BY <3>2, <3>3
  <2> QED BY <1>2, <2>1 DEF Delivered
<1>5. LastComesLast(c)'
  <2>1. ASSUME call[c].listening, NEW i \in 1..Len(Line(c)'), Line(c)'[i] \in {Exit, ShellClosed}
        PROVE  i = Len(Line(c)') /\ Line(c)'[i] = e
    <3>1. \A j \in 1..Len(Line(c)) : Line(c)[j] \notin {Exit, ShellClosed}
      BY <2>1, NoMarks
    <3>2. CASE HostOpen(c)
      <4>1. /\ Len(Line(c)) \in Nat /\ Len(Line(c)') = Len(Line(c)) + 1
            /\ \A j \in 1..Len(Line(c)) : Line(c)'[j] = Line(c)[j]
            /\ Line(c)'[Len(Line(c)) + 1] = e
        BY <1>1, <1>2, <3>2, LenProperties, AppendProperties
      <4>2. i \notin 1..Len(Line(c))
        BY <2>1, <3>1, <4>1
      <4>3. i = Len(Line(c)) + 1
        BY <2>1, <4>1, <4>2
      <4> QED BY <4>1, <4>3
    <3>3. CASE ~HostOpen(c)
      BY <1>2, <2>1, <3>1, <3>3
    <3> QED BY <3>2, <3>3
  <2>2. call[c].listening => \A i \in 1..Len(rx[c]) : rx[c][i] # ShellClosed
    BY DEF LastComesLast
  <2> QED BY <2>1, <2>2, Marks DEF LastComesLast
<1> QED BY <1>3, <1>4, <1>5

\* A piece that is read is the next of its stream.
LEMMA PieceStream ==
    ASSUME Types, WriteModes, NEW c \in Calls, agent.conn = c, agent.mode # "write", Busy(c),
           NEW s \in Streams, NEW e \in Responses, e = <<s, child[c].read[s] + 1>>,
           agent'.mode = "write", agent'.conn = c, agent'.msg = e,
           UNCHANGED <<call, rx, got, down>>,
           Delivered(c), LastComesLast(c), Collected(c),
           child'[c].read[s] = child[c].read[s] + 1,
           \A t \in Streams \ {s} : child'[c].read[t] = child[c].read[t]
    PROVE  Delivered(c)' /\ LastComesLast(c)' /\ Collected(c)'
<1>1. e[1] = s /\ e \notin {Exit, ShellClosed}
  BY Marks
<1>2. /\ HostOpen(c)' <=> HostOpen(c)
      /\ Line(c) \in Seq(Responses)
      /\ HostOpen(c) => Line(c)' = Append(Line(c), e)
      /\ ~HostOpen(c) => Line(c)' = Line(c)
  BY RespondLine
<1>3. \A t \in Streams : /\ Len(got[c][t]) \in Nat /\ child[c].read[t] \in Nat
                         /\ child'[c].read[t] \in Nat /\ child[c].read[t] <= child'[c].read[t]
                         /\ Len(got[c][t]) <= child[c].read[t]
  BY CallTypes, ChildTypes DEF Collected
<1>4. Collected(c)'
  <2>1. ASSUME NEW t \in Streams PROVE Len(got[c][t]) <= child'[c].read[t]
    BY <1>3
  <2> QED BY <2>1 DEF Collected
<1>5. ASSUME call[c].listening
      PROVE  \A i \in 1..Len(Line(c)') : Line(c)'[i] \notin {Exit, ShellClosed}
  <2>1. \A j \in 1..Len(Line(c)) : Line(c)[j] \notin {Exit, ShellClosed}
    BY <1>5, NoMarks
  <2>2. CASE HostOpen(c)
    <3>1. /\ Len(Line(c)) \in Nat /\ Len(Line(c)') = Len(Line(c)) + 1
          /\ \A j \in 1..Len(Line(c)) : Line(c)'[j] = Line(c)[j]
          /\ Line(c)'[Len(Line(c)) + 1] = e
      <4>1. ASSUME NEW q \in Seq(Responses), NEW x \in Responses
            PROVE  /\ Len(q) \in Nat /\ Len(Append(q, x)) = Len(q) + 1
                   /\ \A j \in 1..Len(q) : Append(q, x)[j] = q[j]
                   /\ Append(q, x)[Len(q) + 1] = x
        BY LenProperties, AppendProperties
      <4> DEFINE q == Line(c)
      <4>2. /\ Len(q) \in Nat /\ Len(Append(q, e)) = Len(q) + 1
            /\ \A j \in 1..Len(q) : Append(q, e)[j] = q[j]
            /\ Append(q, e)[Len(q) + 1] = e
        BY <1>2, <4>1, Zenon
      <4>3. Line(c)' = Append(q, e)
        BY <1>2, <2>2
      <4> HIDE DEF q
      <4> QED BY <4>2, <4>3, Zenon DEF q
    <3>2. \A i \in 1..Len(Line(c)') : i \in 1..Len(Line(c)) \/ i = Len(Line(c)) + 1
      BY <3>1
    <3> QED BY <1>1, <2>1, <3>1, <3>2
  <2>3. CASE ~HostOpen(c)
    BY <1>2, <2>1, <2>3
  <2> QED BY <2>2, <2>3
<1>6. LastComesLast(c)'
  <2>1. call[c].listening => \A i \in 1..Len(rx[c]) : rx[c][i] # ShellClosed
    BY DEF LastComesLast
  <2> QED BY <1>5, <2>1 DEF LastComesLast
<1>7. Delivered(c)'
  <2>1. ASSUME call[c].listening, NEW t \in Streams
        PROVE  /\ Ordered(Line(c)', t, Len(got[c][t]), child'[c].read[t])
               /\ HostOpen(c) => Complete(Line(c)', t, Len(got[c][t]), child'[c].read[t])
               /\ ~HostOpen(c) => ~EndsInExit(Line(c)')
    <3>1. /\ Ordered(Line(c), t, Len(got[c][t]), child[c].read[t])
          /\ HostOpen(c) => Complete(Line(c), t, Len(got[c][t]), child[c].read[t])
      BY <2>1 DEF Delivered
    <3>2. \A x \in Responses : x = <<x[1], x[2]>> /\ x[2] \in Nat
      BY ResponseTypes
    <3> DEFINE lo == Len(got[c][t])
               hi == child[c].read[t]
    <3>3. lo \in Nat /\ hi \in Nat /\ lo <= hi
      BY <1>3
    <3>4. t = s => child'[c].read[t] = hi + 1 /\ e = <<t, hi + 1>>
      OBVIOUS
    <3>5. t # s => child'[c].read[t] = hi
      OBVIOUS
    <3>6. Ordered(Line(c), t, lo, hi) /\ (HostOpen(c) => Complete(Line(c), t, lo, hi))
      BY <3>1
    <3> DEFINE q == Line(c)
               more == child'[c].read[t]
    <3>7. ~HostOpen(c) => Line(c)' = q /\ ~EndsInExit(q)
      BY <1>2, <2>1, NoMarks
    <3>8. HostOpen(c) => Line(c)' = Append(q, e)
      BY <1>2
    <3>9. q \in Seq(Responses) /\ more \in Nat /\ hi <= more
      BY <1>2, <1>3
    <3> HIDE DEF lo, hi, q, more
    <3>10. Ordered(q, t, lo, hi) /\ (HostOpen(c) => Complete(q, t, lo, hi))
      BY <3>6 DEF q
    <3>11. CASE HostOpen(c) /\ t = s
      <4>1. e = <<t, hi + 1>> /\ more = hi + 1
        BY <3>4, <3>11 DEF more
      <4>2. Ordered(Append(q, e), t, lo, hi + 1) /\ Complete(Append(q, e), t, lo, hi + 1)
        BY <3>2, <3>3, <3>9, <3>10, <3>11, <4>1, OrderedAppend
      <4> QED BY <3>8, <3>11, <4>1, <4>2 DEF lo, more
    <3>12. CASE HostOpen(c) /\ t # s
      <4>1. e[1] # t /\ more = hi
        BY <1>1, <3>5, <3>12 DEF more
      <4>2. Ordered(Append(q, e), t, lo, hi) /\ Complete(Append(q, e), t, lo, hi)
        BY <3>2, <3>3, <3>9, <3>10, <3>12, <4>1, OrderedAppend
      <4> QED BY <3>8, <3>12, <4>1, <4>2 DEF lo, more
    <3>13. CASE ~HostOpen(c)
      <4>1. Ordered(q, t, lo, more)
        BY <3>2, <3>3, <3>9, <3>10, OrderedMore
      <4> QED BY <3>7, <3>13, <4>1 DEF lo, more
    <3> QED BY <3>11, <3>12, <3>13
  <2> QED BY <1>2, <2>1 DEF Delivered
<1> QED BY <1>4, <1>6, <1>7

\* A step that begins to write a response for a child that is served.
LEMMA RespondKeeps ==
    ASSUME IInv, NEW c \in Calls, c = agent.conn, agent.mode \in {"exec", "shell", "cleanup"},
           NEW e \in Responses, NEW next \in {"request", "exec", "shell"}, Respond(e, next),
           UNCHANGED <<call, rx, got, up, down, backlog, dropped, typed>>,
           child' \in [Calls -> ChildRecs], \A d \in Calls \ {c} : child'[d] = child[d],
           child'[c].state \in {child[c].state, "reaped"},
           Bounds(c)', AgentModes', WriteModes',
           Delivered(c)', LastComesLast(c)', Collected(c)'
    PROVE  IInv'
<1>1. /\ Types /\ c # NoCall /\ c \notin dropped /\ call[c].pc # "idle"
      /\ Standing(c) /\ Streaming(c)
  BY Served DEF IInv
<1>2. /\ agent' \in AgentRecs /\ agent'.mode = "write" /\ agent'.len = FALSE
      /\ agent'.conn = agent.conn
  BY <1>1, Responds
<1>3. child[c].state \in {"running", "exited"}
  BY <1>1 DEF IInv, AgentModes, Busy, Runs
<1>4. Types'
  BY <1>1, <1>2 DEF Types, HostTypes, WireTypes, GuestTypes
<1>5. AtAgent(c)
  BY <1>2 DEF AtAgent
<1>6. HostModes(c)' /\ Fresh(c)'
  BY <1>1, <1>3 DEF Standing, HostModes, Fresh
<1>7. Opening(c)'
  BY <1>1, <1>3 DEF Standing, Opening, Opened
<1>8. Entered(c)'
  <2>1. Typing(c)' = Typing(c) /\ Framed(c)' = Framed(c)
    BY <1>2 DEF Typing, Framed
  <2> QED BY <1>1, <1>3, <2>1 DEF Streaming, Entered
<1> QED BY <1>4, <1>5, <1>6, <1>7, <1>8, AtAgentKept DEF Standing, Streaming

LEMMA ReadStreamKeeps ==
    ASSUME IInv, NEW c \in Calls, c = agent.conn, ReadStream PROVE IInv'
<1>1. PICK s \in StreamsOf(c) :
         /\ child[c].unread[s] > 0
         /\ child' = [child EXCEPT ![c].read[s] = @ + 1, ![c].unread[s] = @ - 1]
         /\ Respond(<<s, child[c].read[s] + 1>>, agent.mode)
  BY DEF ReadStream
<1>2. /\ agent.mode \in {"exec", "shell"}
      /\ UNCHANGED <<call, rx, got, up, down, backlog, dropped, typed>>
  BY DEF ReadStream, hostVars
<1>3. /\ Types /\ WriteModes /\ c # NoCall /\ Standing(c) /\ Streaming(c)
  BY <1>2, Served DEF IInv
<1>4. s \in Streams
  BY DEF StreamsOf, Streams
<1>5. /\ child' \in [Calls -> ChildRecs] /\ \A d \in Calls \ {c} : child'[d] = child[d]
      /\ child'[c].state = child[c].state /\ child'[c].held = child[c].held
      /\ child'[c].read[s] = child[c].read[s] + 1
      /\ child'[c].unread[s] = child[c].unread[s] - 1
      /\ \A t \in Streams \ {s} : /\ child'[c].read[t] = child[c].read[t]
                                  /\ child'[c].unread[t] = child[c].unread[t]
  <2>1. child \in [Calls -> ChildRecs] /\ child[c] \in ChildRecs
    BY <1>3, ChildTypes DEF Types, GuestTypes
  <2> DEFINE more == [child[c].read EXCEPT ![s] = child[c].read[s] + 1]
             less == [child[c].unread EXCEPT ![s] = child[c].unread[s] - 1]
  <2>2. /\ more \in [Streams -> Nat] /\ more[s] = child[c].read[s] + 1
        /\ \A t \in Streams \ {s} : more[t] = child[c].read[t]
    BY <1>4, <2>1 DEF ChildRecs
  <2>3. /\ less \in [Streams -> Nat] /\ less[s] = child[c].unread[s] - 1
        /\ \A t \in Streams \ {s} : less[t] = child[c].unread[t]
    <3>1. child[c].unread[s] - 1 \in Nat
      BY <1>1, <1>4, <2>1 DEF ChildRecs
    <3> QED BY <1>4, <2>1, <3>1 DEF ChildRecs
  <2> DEFINE r == [child[c] EXCEPT !.read = more, !.unread = less]
  <2>4. child' = [child EXCEPT ![c] = r]
    BY <1>1, <2>1 DEF ChildRecs
  <2> HIDE DEF more, less
  <2>5. /\ r \in ChildRecs /\ r.state = child[c].state /\ r.held = child[c].held
        /\ r.read = more /\ r.unread = less
    BY <2>1, <2>2, <2>3 DEF ChildRecs
  <2> HIDE DEF r
  <2>6. child' \in [Calls -> ChildRecs] /\ child'[c] = r /\ \A d \in Calls \ {c} : child'[d] = child[d]
    BY <2>1, <2>4, <2>5
  <2> QED BY <2>2, <2>3, <2>5, <2>6
<1>6. \A t \in Streams : /\ child[c].read[t] \in Nat /\ child[c].unread[t] \in Nat
                         /\ child[c].read[t] + child[c].unread[t] <= Chunks[t]
  BY <1>3, ChildTypes DEF Standing, Bounds
<1>7. PICK e \in Responses : e = <<s, child[c].read[s] + 1>>
  <2>1. child[c].read[s] + 1 \in 1..Chunks[s]
    BY <1>1, <1>4, <1>6, BoundsAssumption
  <2> QED BY <1>4, <2>1, PieceTypes
<1>8. e[1] = s /\ e \notin {Exit, ShellClosed}
  BY <1>4, <1>7, Marks
<1>9. Respond(e, agent.mode) /\ agent.mode \in {"request", "exec", "shell"}
  BY <1>1, <1>2, <1>7
<1>10. /\ agent'.mode = "write" /\ agent'.len = FALSE /\ agent'.conn = agent.conn
       /\ agent'.msg = e /\ agent'.next = agent.mode
  BY <1>3, <1>9, Responds
<1>11. Bounds(c)'
  <2>1. ASSUME NEW t \in Streams PROVE child'[c].read[t] + child'[c].unread[t] <= Chunks[t]
    <3>1. CASE t = s
      <4>1. child'[c].read[s] + child'[c].unread[s] = child[c].read[s] + child[c].unread[s]
        BY <1>4, <1>5, <1>6
      <4> QED BY <1>6, <3>1, <4>1
    <3>2. CASE t # s
      BY <1>5, <1>6, <3>2
    <3> QED BY <3>1, <3>2
  <2> QED BY <1>2, <1>3, <1>5, <2>1 DEF Standing, Bounds
<1>12. AgentModes'
  BY <1>2, <1>3, <1>5, <1>10 DEF IInv, AgentModes, Busy, Runs
<1>13. WriteModes'
  BY <1>2, <1>4, <1>8, <1>10 DEF WriteModes
<1>14. Busy(c)
  BY <1>2 DEF Busy, Runs
<1>15. Delivered(c)' /\ LastComesLast(c)' /\ Collected(c)'
  BY <1>2, <1>3, <1>4, <1>5, <1>7, <1>10, <1>14, PieceStream DEF Streaming
<1> QED BY <1>2, <1>5, <1>9, <1>11, <1>12, <1>13, <1>15, RespondKeeps

\* The exit code is written when the command has exited, the end of a shell when it was
\* waited for.
LEMMA LastKeeps ==
    ASSUME IInv, NEW c \in Calls, c = agent.conn, agent.mode \in {"exec", "cleanup"},
           NEW e \in {Exit, ShellClosed}, Respond(e, "request"),
           UNCHANGED <<call, rx, got, up, down, backlog, dropped, typed>>,
           child' \in [Calls -> ChildRecs], \A d \in Calls \ {c} : child'[d] = child[d],
           child'[c].read = child[c].read, child'[c].unread = Nothing,
           child'[c].held <= child[c].held,
           \/ /\ e = Exit /\ c \in Execs
              /\ child[c].state = "exited" /\ child'[c].state = "exited"
           \/ e = ShellClosed /\ child'[c].state = "reaped"
    PROVE  IInv'
<1>1. /\ Types /\ WriteModes /\ c # NoCall /\ Standing(c) /\ Streaming(c)
  BY Served DEF IInv
<1>2. e \in Responses /\ Exit # ShellClosed
  BY Marks
<1>3. /\ agent'.mode = "write" /\ agent'.len = FALSE /\ agent'.conn = agent.conn
      /\ agent'.msg = e /\ agent'.next = "request"
  BY <1>1, <1>2, Responds
<1>4. Bounds(c)'
  <2>1. \A t \in Streams : child[c].read[t] \in Nat /\ child[c].unread[t] \in Nat /\ child'[c].unread[t] = 0
    BY <1>1, ChildTypes DEF Nothing
  <2>2. child[c].held \in Nat /\ child'[c].held \in Nat
    BY <1>1, ChildTypes DEF ChildRecs
  <2>3. ASSUME NEW t \in Streams PROVE child'[c].read[t] + child'[c].unread[t] <= Chunks[t]
    <3>1. child'[c].read[t] + child'[c].unread[t] = child[c].read[t]
      BY <2>1
    <3>2. child[c].read[t] + child[c].unread[t] <= Chunks[t]
      BY <1>1 DEF Standing, Bounds
    <3> QED BY <2>1, <3>1, <3>2, BoundsAssumption
  <2>4. child'[c].held <= Terminal
    BY <1>1, <2>2, BoundsAssumption DEF Standing, Bounds
  <2> QED BY <1>1, <2>3, <2>4 DEF Standing, Bounds
<1>5. Busy(c) /\ ~Busy(c)'
  BY <1>3 DEF Busy, Runs
<1>6. AgentModes'
  BY <1>1, <1>2, <1>3, <1>5, CallsAssumption DEF IInv, AgentModes, Runs
<1>7. WriteModes'
  BY <1>2, <1>3 DEF WriteModes
<1>8. Delivered(c)' /\ LastComesLast(c)' /\ Collected(c)'
  BY <1>1, <1>2, <1>3, <1>5, LastStream DEF Streaming
<1> QED BY <1>2, <1>4, <1>6, <1>7, <1>8, RespondKeeps

LEMMA ReportExitKeeps ==
    ASSUME IInv, NEW c \in Calls, c = agent.conn, ReportExit PROVE IInv'
<1>1. /\ agent.mode = "exec" /\ child[c].state = "exited"
      /\ child' = [child EXCEPT ![c].unread = Nothing]
      /\ Respond(Exit, "request")
      /\ UNCHANGED <<call, rx, got, up, down, backlog, dropped, typed>>
  BY DEF ReportExit, hostVars
<1>2. Types /\ c \in Execs
  BY <1>1 DEF IInv, AgentModes, Runs
<1>3. /\ child' \in [Calls -> ChildRecs] /\ \A d \in Calls \ {c} : child'[d] = child[d]
      /\ child'[c].read = child[c].read /\ child'[c].unread = Nothing
      /\ child'[c].held = child[c].held /\ child'[c].state = child[c].state
      /\ child[c].held \in Nat
  <2>1. child \in [Calls -> ChildRecs] /\ Nothing \in [Streams -> Nat]
    BY <1>2 DEF Types, GuestTypes, Nothing
  <2> HIDE DEF Nothing
  <2> QED BY <1>1, <2>1 DEF ChildRecs
<1> QED BY <1>1, <1>2, <1>3, LastKeeps

LEMMA CleanupKeeps ==
    ASSUME IInv, NEW c \in Calls, c = agent.conn, Cleanup PROVE IInv'
<1>1. /\ agent.mode = "cleanup"
      /\ child' = [child EXCEPT ![c].state = "reaped", ![c].unread = Nothing, ![c].held = 0]
      /\ Respond(ShellClosed, "request")
      /\ UNCHANGED <<call, rx, got, up, down, backlog, dropped, typed>>
  BY DEF Cleanup, hostVars
<1>2. Types
  BY DEF IInv
<1>3. /\ child' \in [Calls -> ChildRecs] /\ \A d \in Calls \ {c} : child'[d] = child[d]
      /\ child'[c].read = child[c].read /\ child'[c].unread = Nothing
      /\ child'[c].held = 0 /\ child'[c].state = "reaped"
      /\ child[c].held \in Nat
  <2>1. child \in [Calls -> ChildRecs] /\ Nothing \in [Streams -> Nat]
    BY <1>2 DEF Types, GuestTypes, Nothing
  <2> HIDE DEF Nothing
  <2> QED BY <1>1, <2>1 DEF ChildRecs, ChildStates
<1>4. child'[c].held <= child[c].held
  BY <1>3
<1> QED BY <1>1, <1>3, <1>4, LastKeeps

\* An input that is taken is the first of those on their way, until it is typed.
LEMMA HeadConcat ==
    ASSUME NEW S, NEW q \in Seq(S), q # <<>>
    PROVE  <<Head(q)>> \o Tail(q) = q
<1>1. Tail(q) \in Seq(S) /\ Head(q) \in S
  BY EntryTypes
<1>2. Append(<<>>, Head(q)) \o (Tail(q) \o <<>>) = <<>> \o (q \o <<>>)
  BY EmptyTypes, ConcatMove
<1>3. Append(<<>>, Head(q)) = <<Head(q)>>
  OBVIOUS
<1>4. Tail(q) \o <<>> = Tail(q) /\ q \o <<>> = q /\ <<>> \o q = q
  BY <1>1, ConcatEmptySeq
<1> QED BY <1>2, <1>3, <1>4

LEMMA TakeInputKeeps ==
    ASSUME IInv, NEW c \in Calls, c = agent.conn, TakeInput PROVE IInv'
<1>1. /\ agent.mode = "shell" /\ agent.len /\ up[c] # <<>> /\ Head(up[c])[1] = "Input"
      /\ up' = [up EXCEPT ![c] = Tail(up[c])]
      /\ agent' = [agent EXCEPT !.mode = "type", !.len = FALSE, !.msg = Head(up[c])]
      /\ UNCHANGED <<call, rx, got, down, backlog, dropped, child, typed>>
  BY DEF TakeInput, Requested, TakeRequest, hostVars
<1>2. /\ Types /\ c # NoCall /\ c \notin dropped /\ call[c].pc # "idle"
      /\ Standing(c) /\ Streaming(c)
  BY <1>1, Served DEF IInv
<1>3. /\ up' \in [Calls -> Seq(Requests)] /\ up'[c] = Tail(up[c])
      /\ \A d \in Calls \ {c} : up'[d] = up[d]
      /\ Head(up[c]) \in Requests /\ up[c] \in Seq(Requests)
  BY <1>1, <1>2, UpTail
<1>4. /\ agent' \in AgentRecs /\ agent'.mode = "type" /\ agent'.len = FALSE
      /\ agent'.conn = agent.conn /\ agent'.msg = Head(up[c]) /\ agent'.next = agent.next
  BY <1>1, <1>2, <1>3 DEF Types, GuestTypes, AgentRecs, Modes
<1>5. Types'
  BY <1>1, <1>2, <1>3, <1>4 DEF Types, HostTypes, WireTypes, GuestTypes
<1>6. AtAgent(c)
  BY <1>1, <1>3, <1>4 DEF AtAgent
<1>7. AgentModes' /\ WriteModes'
  BY <1>1, <1>2, <1>3, <1>4 DEF IInv, AgentModes, WriteModes, Runs, Busy
<1>8. child[c].state \in {"running", "exited"}
  BY <1>1, <1>2 DEF IInv, AgentModes, Busy, Runs
<1>9. Bounds(c)' /\ HostModes(c)' /\ Fresh(c)'
  BY <1>1, <1>2 DEF Standing, Bounds, HostModes, Fresh
<1>10. Opening(c)'
  BY <1>1, <1>2, <1>8, OpeningStarted DEF Standing
<1>11. Line(c)' = Line(c) /\ Busy(c)
  BY <1>1, <1>4 DEF Line, HostOpen, Pending, Busy, Runs
<1>12. Delivered(c)' /\ LastComesLast(c)' /\ Collected(c)'
  BY <1>1, <1>2, <1>11, StreamQuiet DEF Streaming
<1>13. Entered(c)'
  <2>1. Typing(c) = <<>> /\ Typing(c)' = <<Head(up[c])>> /\ Framed(c)' = Framed(c)
    BY <1>1, <1>4 DEF Typing, Framed
  <2>2. <<Head(up[c])>> \o Tail(up[c]) = up[c] /\ <<>> \o up[c] = up[c]
    BY <1>1, <1>3, HeadConcat, ConcatEmptySeq
  <2>3. Typing(c)' \o up'[c] = Typing(c) \o up[c]
    BY <1>3, <2>1, <2>2
  <2> QED BY <1>1, <1>2, <2>1, <2>3 DEF Streaming, Entered
<1> QED BY <1>5, <1>6, <1>7, <1>9, <1>10, <1>12, <1>13, AtAgentKept DEF Standing, Streaming

\* What reaches a shell is the next input.
LEMMA TypeInputKeeps ==
    ASSUME IInv, NEW c \in Calls, c = agent.conn, TypeInput PROVE IInv'
<1>1. /\ agent.mode = "type" /\ UNCHANGED <<call, rx, got, down, backlog>>
      /\ \/ /\ child[c].held < Terminal
            /\ child' = [child EXCEPT ![c].held = @ + 1]
            /\ typed' = [typed EXCEPT ![c] = Append(typed[c], agent.msg[2])]
            /\ Become("shell") /\ UNCHANGED <<up, dropped>>
         \/ Hangup /\ UNCHANGED typed
  BY DEF TypeInput, hostVars
<1>2. /\ Types /\ c # NoCall /\ c \notin dropped /\ call[c].pc # "idle"
      /\ Standing(c) /\ Streaming(c)
  BY <1>1, Served DEF IInv
<1>3. CASE Hangup /\ UNCHANGED typed
  BY <1>1, <1>3, HangupKeeps
<1>4. CASE /\ child[c].held < Terminal
           /\ child' = [child EXCEPT ![c].held = @ + 1]
           /\ typed' = [typed EXCEPT ![c] = Append(typed[c], agent.msg[2])]
           /\ Become("shell") /\ UNCHANGED <<up, dropped>>
  <2>1. agent.msg \in Requests /\ agent.msg[1] = "Input"
    BY <1>1 DEF IInv, AgentModes
  <2>2. /\ agent' \in AgentRecs /\ agent'.mode = "shell" /\ agent'.len = FALSE
        /\ agent'.conn = agent.conn /\ agent'.msg = agent.msg /\ agent'.next = agent.next
    <3>1. "shell" \in Modes
      BY DEF Modes
    <3> QED BY <1>2, <1>4, <3>1, Becomes
  <2>3. /\ child' \in [Calls -> ChildRecs] /\ \A d \in Calls \ {c} : child'[d] = child[d]
        /\ child'[c].read = child[c].read /\ child'[c].unread = child[c].unread
        /\ child'[c].held = child[c].held + 1 /\ child'[c].state = child[c].state
        /\ child[c].held \in Nat
    <3>1. child \in [Calls -> ChildRecs]
      BY <1>2 DEF Types, GuestTypes
    <3>2. child[c].held \in Nat /\ child[c].held + 1 \in Nat
      BY <1>2, ChildTypes
    <3> QED BY <1>4, <3>1, <3>2 DEF ChildRecs
  <2>4. child[c].state \in {"running", "exited"}
    BY <1>1, <1>2 DEF IInv, AgentModes, Busy, Runs
  <2> DEFINE lo == Len(typed[c])
             hi == Framed(c)
             q == up[c]
             e == agent.msg
  <2>5. lo \in Nat /\ hi \in Nat /\ q \in Seq(Requests) /\ typed[c] \in Seq(Nat) /\ Counts(typed[c])
    BY <1>2, CallTypes DEF Framed, Standing, HostModes, Streaming, Entered
  <2>6. /\ Ordered(<<e>> \o q, "Input", lo, hi)
        /\ call[c].pc \in {"open", "closing"} => Complete(<<e>> \o q, "Input", lo, hi)
    <3>1. Typing(c) = <<agent.msg>>
      BY <1>1 DEF Typing
    <3> QED BY <1>2, <2>4, <3>1 DEF Streaming, Entered
  <2> HIDE DEF lo, hi, q, e
  <2>7. /\ e = <<"Input", lo + 1>> /\ lo + 1 <= hi
        /\ Ordered(q, "Input", lo + 1, hi)
        /\ call[c].pc \in {"open", "closing"} => Complete(q, "Input", lo + 1, hi)
    <3> DEFINE w == <<e>> \o q
    <3>1. w # <<>> /\ Head(w) = e /\ Tail(w) = q /\ w \in Seq(Requests) /\ e[1] = "Input"
      <4>1. e \in Requests /\ e[1] = "Input"
        BY <2>1 DEF e
      <4>2. w # <<>> /\ Head(w) = e /\ Tail(w) = q
        BY <2>5, <4>1, OneConcat
      <4>3. w \in Seq(Requests)
        BY <2>5, <4>1, OneTypes, ConcatProperties
      <4> QED BY <4>1, <4>2, <4>3
    <3>2. Ordered(w, "Input", lo, hi) /\ (call[c].pc \in {"open", "closing"} => Complete(w, "Input", lo, hi))
      BY <2>6
    <3> HIDE DEF w
    <3>3. \A x \in Requests : x = <<x[1], x[2]>> /\ x[2] \in Nat
      BY RequestTypes
    <3>4. /\ Head(w) = <<"Input", lo + 1>> /\ lo + 1 <= hi
          /\ Ordered(Tail(w), "Input", lo + 1, hi)
          /\ Complete(w, "Input", lo, hi) => Complete(Tail(w), "Input", lo + 1, hi)
      BY <2>5, <3>1, <3>2, <3>3, OrderedTail
    <3> QED BY <3>1, <3>2, <3>4
  <2>8. /\ typed' \in [Calls -> Seq(Nat)] /\ \A d \in Calls \ {c} : typed'[d] = typed[d]
        /\ Len(typed'[c]) = lo + 1 /\ Counts(typed'[c])
    <3>1. agent.msg[2] = lo + 1
      BY <2>7 DEF e
    <3>2. /\ Append(typed[c], lo + 1) \in Seq(Nat) /\ Len(Append(typed[c], lo + 1)) = lo + 1
          /\ Counts(Append(typed[c], lo + 1))
      BY <2>5, CountsAppend DEF lo
    <3>3. /\ typed' \in [Calls -> Seq(Nat)] /\ typed'[c] = Append(typed[c], lo + 1)
          /\ \A d \in Calls \ {c} : typed'[d] = typed[d]
      BY <1>2, <1>4, <3>1, <3>2, ChannelStep DEF Types, GuestTypes
    <3> QED BY <3>2, <3>3
  <2>9. Types'
    BY <1>1, <1>2, <1>4, <2>2, <2>3, <2>8 DEF Types, HostTypes, WireTypes, GuestTypes
  <2>10. AtAgent(c)
    BY <1>1, <1>4, <2>2, <2>3, <2>8 DEF AtAgent
  <2>11. AgentModes' /\ WriteModes'
    BY <1>1, <1>2, <2>2, <2>3 DEF IInv, AgentModes, WriteModes, Runs, Busy
  <2>12. Bounds(c)'
    <3>1. child'[c].held <= Terminal
      BY <1>4, <2>3, BoundsAssumption
    <3> QED BY <1>1, <1>2, <2>3, <3>1 DEF Standing, Bounds
  <2>13. HostModes(c)' /\ Fresh(c)'
    BY <1>1, <1>2, <1>4, <2>3, <2>4 DEF Standing, HostModes, Fresh
  <2>14. Opening(c)'
    BY <1>1, <1>2, <1>4, <2>3, <2>4 DEF Standing, Opening, Opened
  <2>15. Line(c)' = Line(c) /\ Busy(c)
    BY <1>1, <2>2 DEF Line, HostOpen, Pending, Busy, Runs
  <2>16. Delivered(c)' /\ LastComesLast(c)' /\ Collected(c)'
    BY <1>1, <1>2, <2>3, <2>15, StreamQuiet DEF Streaming
  <2>17. Entered(c)'
    <3>1. Typing(c)' \o up'[c] = q
      <4>1. Typing(c)' = <<>> /\ up'[c] = up[c]
        BY <1>4, <2>2 DEF Typing
      <4> QED BY <2>5, <4>1, ConcatEmptySeq DEF q
    <3>2. Framed(c)' = hi
      BY <1>1 DEF Framed, hi
    <3> QED BY <1>1, <2>7, <2>8, <3>1, <3>2 DEF Entered
  <2> QED BY <2>9, <2>10, <2>11, <2>12, <2>13, <2>14, <2>16, <2>17, AtAgentKept
          DEF Standing, Streaming
<1> QED BY <1>1, <1>3, <1>4

LEMMA LeaveShellKeeps ==
    ASSUME IInv, NEW c \in Calls, c = agent.conn, LeaveShell PROVE IInv'
<1>1. /\ agent.mode = "shell" /\ Become("cleanup")
      /\ UNCHANGED <<call, rx, got, down, backlog, dropped, child, typed>>
      /\ \/ /\ up[c] # <<>> /\ Head(up[c])[1] = "CloseShell"
            /\ up' = [up EXCEPT ![c] = Tail(up[c])]
         \/ UNCHANGED up
  BY DEF LeaveShell, Requested, TakeRequest, hostVars
<1>2. /\ Types /\ c # NoCall /\ c \notin dropped /\ call[c].pc # "idle"
      /\ Standing(c) /\ Streaming(c)
  BY <1>1, Served DEF IInv
<1>3. /\ agent' \in AgentRecs /\ agent'.mode = "cleanup" /\ agent'.len = FALSE
      /\ agent'.conn = agent.conn /\ agent'.msg = agent.msg /\ agent'.next = agent.next
  <2>1. "cleanup" \in Modes
    BY DEF Modes
  <2> QED BY <1>1, <1>2, <2>1, Becomes
<1>4. /\ up' \in [Calls -> Seq(Requests)] /\ \A d \in Calls \ {c} : up'[d] = up[d]
      /\ up'[c] = Tail(up[c]) \/ up'[c] = up[c]
  <2>1. CASE UNCHANGED up
    BY <1>2, <2>1 DEF Types, WireTypes
  <2>2. CASE up[c] # <<>> /\ up' = [up EXCEPT ![c] = Tail(up[c])]
    BY <1>2, <2>2, UpTail
  <2> QED BY <1>1, <2>1, <2>2
<1>5. Types'
  BY <1>1, <1>2, <1>3, <1>4 DEF Types, HostTypes, WireTypes, GuestTypes
<1>6. AtAgent(c)
  BY <1>1, <1>3, <1>4 DEF AtAgent
<1>7. AgentModes' /\ WriteModes'
  BY <1>1, <1>2, <1>3 DEF IInv, AgentModes, WriteModes, Runs, Busy
<1>8. child[c].state \in {"running", "exited"}
  BY <1>1, <1>2 DEF IInv, AgentModes, Busy, Runs
<1>9. Bounds(c)' /\ HostModes(c)' /\ Fresh(c)'
  BY <1>1, <1>2 DEF Standing, Bounds, HostModes, Fresh
<1>10. Opening(c)'
  <2>1. CASE UNCHANGED up
    BY <1>1, <1>2, <1>8, <2>1 DEF Standing, Opening, Opened
  <2>2. CASE up[c] # <<>> /\ up' = [up EXCEPT ![c] = Tail(up[c])]
    BY <1>1, <1>2, <1>8, <2>2, OpeningStarted DEF Standing
  <2> QED BY <1>1, <2>1, <2>2
<1>11. Line(c)' = Line(c) /\ Busy(c) /\ Typing(c) = <<>> /\ Typing(c)' = <<>>
  BY <1>1, <1>3 DEF Line, HostOpen, Pending, Busy, Runs, Typing
<1>12. Delivered(c)' /\ LastComesLast(c)' /\ Collected(c)'
  BY <1>1, <1>2, <1>11, StreamQuiet DEF Streaming
<1>13. Entered(c)'
  <2>1. CASE UNCHANGED up
    <3>1. Framed(c)' = Framed(c)
      BY <1>1 DEF Framed
    <3> QED BY <1>1, <1>2, <1>11, <2>1, <3>1 DEF Streaming, Entered
  <2>2. CASE /\ up[c] # <<>> /\ Head(up[c])[1] = "CloseShell"
             /\ up' = [up EXCEPT ![c] = Tail(up[c])]
    <3>1. up'[c] = Tail(up[c])
      BY <1>2, <2>2, UpTail
    <3> QED BY <1>1, <1>2, <1>11, <2>2, <3>1, EnteredTail DEF Standing, Streaming
  <2> QED BY <1>1, <2>1, <2>2
<1> QED BY <1>5, <1>6, <1>7, <1>9, <1>10, <1>12, <1>13, AtAgentKept DEF Standing, Streaming

\* A child runs by itself: it writes, reads and exits.
LEMMA ChildKept ==
    ASSUME IInv, NEW c \in Calls, child[c].state = "running",
           UNCHANGED <<call, rx, got, up, down, backlog, dropped, agent, typed>>,
           child' \in [Calls -> ChildRecs], \A d \in Calls \ {c} : child'[d] = child[d],
           child'[c].state \in {"running", "exited"}, child'[c].read = child[c].read,
           Bounds(c)'
    PROVE  IInv'
<1>1. Types /\ Standing(c) /\ Streaming(c)
  BY DEF IInv
<1>2. Types'
  BY <1>1 DEF Types, HostTypes, WireTypes, GuestTypes
<1>3. AgentModes'
  <2>1. agent.conn # NoCall => agent.conn \in Calls
    BY <1>1, AgentTypes
  <2> QED BY <2>1, CallsAssumption DEF IInv, AgentModes, Runs, Busy, Calls
<1>4. WriteModes'
  <2>1. agent.mode = "write" => agent.conn \in Calls
    BY Served
  <2> QED BY <2>1, Marks DEF IInv, WriteModes
<1>5. Placed'
  <2>1. \A i \in 1..Len(backlog) : backlog[i] \in Calls
    BY <1>1, EntryTypes DEF Types, WireTypes
  <2> QED BY <2>1 DEF IInv, Placed
<1>6. Line(c)' = Line(c) /\ Typing(c)' = Typing(c) /\ (Busy(c)' <=> Busy(c)) /\ Framed(c)' = Framed(c)
  BY DEF Line, HostOpen, Pending, Typing, Busy, Runs, Framed
<1>7. HostModes(c)' /\ Fresh(c)' /\ Opening(c)'
  BY <1>1 DEF Standing, HostModes, Fresh, Opening, Opened
<1>8. Delivered(c)' /\ Entered(c)'
  BY <1>1, <1>6 DEF Streaming, Delivered, Entered, HostOpen
<1>9. LastComesLast(c)'
  <2>1. ASSUME call[c].listening
        PROVE  \A i \in 1..Len(Line(c)) : Line(c)[i] \notin {Exit, ShellClosed}
    BY <1>1, <2>1 DEF Streaming, LastComesLast
  <2> QED BY <1>1, <1>6, <2>1 DEF Streaming, LastComesLast
<1>10. Collected(c)'
  BY <1>1, <1>6 DEF Streaming, Collected
<1>11. ASSUME NEW d \in Calls PROVE Standing(d)' /\ Streaming(d)'
  <2>1. CASE d = c
    BY <1>7, <1>8, <1>9, <1>10, <2>1 DEF Standing, Streaming
  <2>2. CASE d # c
    <3>1. Apart(d)
      BY <2>2 DEF Apart
    <3> QED BY <3>1, ApartKept DEF IInv
  <2> QED BY <2>1, <2>2
<1> QED BY <1>2, <1>3, <1>4, <1>5, <1>11 DEF IInv

LEMMA ChildWritesKeeps ==
    ASSUME IInv, NEW c \in Calls, ChildWrites(c) PROVE IInv'
<1>1. PICK s \in StreamsOf(c) :
         /\ child[c].read[s] + child[c].unread[s] < Chunks[s]
         /\ child' = [child EXCEPT ![c].unread[s] = @ + 1]
  BY DEF ChildWrites
<1>2. /\ child[c].state = "running"
      /\ UNCHANGED <<call, rx, got, up, down, backlog, dropped, agent, typed>>
  BY DEF ChildWrites, hostVars
<1>3. Types /\ Standing(c) /\ s \in Streams
  BY DEF IInv, StreamsOf, Streams
<1>4. /\ child' \in [Calls -> ChildRecs] /\ \A d \in Calls \ {c} : child'[d] = child[d]
      /\ child'[c].state = child[c].state /\ child'[c].held = child[c].held
      /\ child'[c].read = child[c].read
      /\ child'[c].unread[s] = child[c].unread[s] + 1
      /\ \A t \in Streams \ {s} : child'[c].unread[t] = child[c].unread[t]
  <2>1. child \in [Calls -> ChildRecs] /\ child[c] \in ChildRecs
    BY <1>3, ChildTypes DEF Types, GuestTypes
  <2> DEFINE more == [child[c].unread EXCEPT ![s] = child[c].unread[s] + 1]
  <2>2. /\ more \in [Streams -> Nat] /\ more[s] = child[c].unread[s] + 1
        /\ \A t \in Streams \ {s} : more[t] = child[c].unread[t]
    BY <1>3, <2>1 DEF ChildRecs
  <2> DEFINE r == [child[c] EXCEPT !.unread = more]
  <2>3. child' = [child EXCEPT ![c] = r]
    BY <1>1, <2>1 DEF ChildRecs
  <2> HIDE DEF more
  <2>4. /\ r \in ChildRecs /\ r.state = child[c].state /\ r.held = child[c].held
        /\ r.read = child[c].read /\ r.unread = more
    BY <2>1, <2>2 DEF ChildRecs
  <2> HIDE DEF r
  <2>5. child' \in [Calls -> ChildRecs] /\ child'[c] = r /\ \A d \in Calls \ {c} : child'[d] = child[d]
    BY <2>1, <2>3, <2>4
  <2> QED BY <2>2, <2>4, <2>5
<1>5. Bounds(c)'
  <2>1. ASSUME NEW t \in Streams PROVE child'[c].read[t] + child'[c].unread[t] <= Chunks[t]
    <3>1. /\ child[c].read[t] \in Nat /\ child[c].unread[t] \in Nat
          /\ child[c].read[t] + child[c].unread[t] <= Chunks[t] /\ Chunks[t] \in Nat
      BY <1>3, ChildTypes, BoundsAssumption DEF Standing, Bounds
    <3>2. CASE t = s
      <4>1. child'[c].read[t] = child[c].read[t] /\ child'[c].unread[t] = child[c].unread[t] + 1
        BY <1>4, <3>2
      <4> QED BY <1>1, <3>1, <3>2, <4>1
    <3>3. CASE t # s
      BY <1>4, <3>1, <3>3
    <3> QED BY <3>2, <3>3
  <2> QED BY <1>2, <1>3, <1>4, <2>1 DEF Standing, Bounds
<1> QED BY <1>2, <1>4, <1>5, ChildKept

LEMMA ChildReadsKeeps ==
    ASSUME IInv, NEW c \in Calls, ChildReads(c) PROVE IInv'
<1>1. /\ child[c].state = "running" /\ child[c].held > 0
      /\ child' = [child EXCEPT ![c].held = @ - 1]
      /\ UNCHANGED <<call, rx, got, up, down, backlog, dropped, agent, typed>>
  BY DEF ChildReads, hostVars
<1>2. Types /\ Standing(c)
  BY DEF IInv
<1>3. /\ child' \in [Calls -> ChildRecs] /\ \A d \in Calls \ {c} : child'[d] = child[d]
      /\ child'[c].state = child[c].state /\ child'[c].read = child[c].read
      /\ child'[c].unread = child[c].unread /\ child'[c].held = child[c].held - 1
      /\ child[c].held \in Nat
  <2>1. child \in [Calls -> ChildRecs]
    BY <1>2 DEF Types, GuestTypes
  <2>2. child[c].held - 1 \in Nat /\ child[c].held \in Nat
    BY <1>1, <1>2, ChildTypes
  <2> QED BY <1>1, <2>1, <2>2 DEF ChildRecs
<1>4. Bounds(c)'
  <2>1. child'[c].held <= Terminal
    BY <1>2, <1>3, BoundsAssumption DEF Standing, Bounds
  <2> QED BY <1>1, <1>2, <1>3, <2>1 DEF Standing, Bounds
<1> QED BY <1>1, <1>3, <1>4, ChildKept

LEMMA ChildExitsKeeps ==
    ASSUME IInv, NEW c \in Calls, ChildExits(c) PROVE IInv'
<1>1. /\ child[c].state = "running"
      /\ child' = [child EXCEPT ![c].state = "exited"]
      /\ UNCHANGED <<call, rx, got, up, down, backlog, dropped, agent, typed>>
  BY DEF ChildExits, hostVars
<1>2. Types /\ Standing(c)
  BY DEF IInv
<1>3. /\ child' \in [Calls -> ChildRecs] /\ \A d \in Calls \ {c} : child'[d] = child[d]
      /\ child'[c].state = "exited" /\ child'[c].read = child[c].read
      /\ child'[c].unread = child[c].unread /\ child'[c].held = child[c].held
  <2>1. child \in [Calls -> ChildRecs]
    BY <1>2 DEF Types, GuestTypes
  <2> QED BY <1>1, <2>1 DEF ChildRecs, ChildStates
<1>4. Bounds(c)'
  BY <1>1, <1>2, <1>3 DEF Standing, Bounds
<1> QED BY <1>1, <1>3, <1>4, ChildKept

-----------------------------------------------------------------------------
(* The theorems *)

LEMMA InitEstablishes == Init => IInv
<1> SUFFICES ASSUME Init PROVE IInv
  OBVIOUS
<1>1. /\ call = [c \in Calls |-> NewCall] /\ rx = [c \in Calls |-> <<>>]
      /\ got = [c \in Calls |-> [s \in Streams |-> <<>>]]
      /\ up = [c \in Calls |-> <<>>] /\ down = [c \in Calls |-> <<>>]
      /\ backlog = <<>> /\ dropped = {} /\ agent = Accepting
      /\ child = [c \in Calls |-> NewChild] /\ typed = [c \in Calls |-> <<>>]
  BY DEF Init
<1>2. /\ NewCall \in CallRecs /\ NewCall.pc = "idle" /\ NewCall.sent = 0
      /\ NewCall.frame = "none" /\ ~NewCall.listening /\ ~NewCall.reading
  BY BoundsAssumption DEF NewCall, CallRecs, CallStates
<1>3. /\ NewChild \in ChildRecs /\ NewChild.state = "none" /\ NewChild.held = 0
      /\ \A s \in Streams : NewChild.read[s] = 0 /\ NewChild.unread[s] = 0
  BY DEF NewChild, Nothing, ChildRecs, ChildStates
<1>4. /\ Accepting \in AgentRecs /\ Accepting.mode = "accept" /\ Accepting.conn = NoCall
      /\ Accepting.len = FALSE
  BY Marks DEF Accepting, AgentRecs, Modes
<1>5. Types
  <2>1. /\ call \in [Calls -> CallRecs] /\ child \in [Calls -> ChildRecs] /\ agent \in AgentRecs
    BY <1>1, <1>2, <1>3, <1>4
  <2>2. \A S : [c \in Calls |-> <<>>] \in [Calls -> Seq(S)]
    BY EmptyTypes
  <2>3. got \in [Calls -> [Streams -> Seq(Nat)]]
    <3>1. [s \in Streams |-> <<>>] \in [Streams -> Seq(Nat)]
      BY EmptyTypes
    <3> QED BY <1>1, <3>1
  <2>4. backlog \in Seq(Calls) /\ dropped \in SUBSET Calls
    BY <1>1, EmptyTypes
  <2>5. /\ rx \in [Calls -> Seq(Responses)] /\ down \in [Calls -> Seq(Responses)]
        /\ up \in [Calls -> Seq(Requests)] /\ typed \in [Calls -> Seq(Nat)]
    BY <1>1, <2>2
  <2> QED BY <2>1, <2>3, <2>4, <2>5 DEF Types, HostTypes, WireTypes, GuestTypes
<1>6. AgentModes /\ WriteModes /\ Placed
  <2>1. Len(backlog) = 0
    BY <1>1
  <2> QED BY <1>1, <1>4, <2>1 DEF AgentModes, WriteModes, Placed, Runs, Busy
<1>7. ASSUME NEW c \in Calls PROVE Standing(c) /\ Streaming(c)
  <2>1. /\ call[c] = NewCall /\ rx[c] = <<>> /\ up[c] = <<>> /\ down[c] = <<>>
        /\ typed[c] = <<>> /\ child[c] = NewChild /\ c \notin dropped
        /\ \A s \in Streams : got[c][s] = <<>>
    BY <1>1
  <2>2. Bounds(c)
    BY <1>3, <2>1, BoundsAssumption DEF Bounds
  <2>3. HostModes(c) /\ Fresh(c)
    BY <1>2, <1>3, <2>1 DEF HostModes, Fresh
  <2>4. Opening(c)
    BY <1>2, <2>1 DEF Opening
  <2>5. Line(c) = <<>> /\ Typing(c) = <<>> /\ Framed(c) = 0
    BY <1>1, <1>2, <1>4, <2>1 DEF Line, HostOpen, Typing, Framed
  <2>6. Delivered(c) /\ LastComesLast(c)
    BY <1>2, <2>1 DEF Delivered, LastComesLast
  <2>7. Collected(c)
    BY <1>2, <1>3, <2>1 DEF Collected, Counts
  <2>8. Entered(c)
    <3>1. <<>> \o up[c] = <<>> /\ Len(typed[c]) = 0
      BY <2>1, EmptyTypes, ConcatEmptySeq
    <3>2. Ordered(<<>>, "Input", 0, 0)
      BY OrderedNothing
    <3> QED BY <1>2, <2>1, <2>5, <3>1, <3>2 DEF Entered, Counts
  <2> QED BY <2>2, <2>3, <2>4, <2>6, <2>7, <2>8 DEF Standing, Streaming
<1> QED BY <1>5, <1>6, <1>7 DEF IInv

LEMMA StutterPreserves == IInv /\ UNCHANGED vars => IInv'
<1> SUFFICES ASSUME IInv, UNCHANGED vars PROVE IInv'
  OBVIOUS
<1>1. UNCHANGED <<call, rx, got, up, down, backlog, dropped, agent, child, typed>>
  BY DEF vars
<1>2. Types' /\ AgentModes' /\ WriteModes' /\ Placed'
  BY <1>1 DEF IInv, Types, HostTypes, WireTypes, GuestTypes, AgentModes, WriteModes, Placed, Runs, Busy
<1>3. ASSUME NEW c \in Calls PROVE Standing(c)' /\ Streaming(c)'
  <2>1. Apart(c)
    BY <1>1 DEF Apart
  <2> QED BY <2>1, ApartKept DEF IInv
<1> QED BY <1>2, <1>3 DEF IInv

LEMMA NextPreserves == IInv /\ Next => IInv'
<1> SUFFICES ASSUME IInv, Next PROVE IInv'
  OBVIOUS
<1>1. ASSUME NEW c \in Calls, Begin(c) PROVE IInv'
  BY <1>1, ConnectKeeps, ConnectCancelledKeeps DEF Begin
<1>2. ASSUME NEW c \in Calls, HostStep(c) PROVE IInv'
  BY <1>2, PassOnKeeps, ReadingEndsKeeps, ReceiveKeeps, ReceiveEndKeeps, WriteLengthKeeps,
     WriteBodyKeeps, WriteFailsKeeps DEF HostStep
<1>3. ASSUME NEW c \in Calls, Caller(c) PROVE IInv'
  BY <1>3, DropReceiverKeeps, DropSenderKeeps, CloseShellKeeps DEF Caller
<1>4. ASSUME AgentStep PROVE IInv'
  <2>1. CASE Accept
    BY <2>1, AcceptKeeps
  <2>2. CASE ~Accept
    <3>1. agent.mode # "accept"
      BY <1>4, <2>2 DEF AgentStep, ReadLength, Reading, StartChild, IgnoreInput, ReadEof, Write,
            ReadStream, ReportExit, TakeInput, TypeInput, LeaveShell, Cleanup
    <3>2. PICK c \in Calls : c = agent.conn
      BY <3>1, Served
    <3> QED BY <1>4, <2>2, <3>2, ReadLengthKeeps, StartChildKeeps, IgnoreInputKeeps, ReadEofKeeps,
               WriteKeeps, ReadStreamKeeps, ReportExitKeeps, TakeInputKeeps, TypeInputKeeps,
               LeaveShellKeeps, CleanupKeeps DEF AgentStep
  <2> QED BY <2>1, <2>2
<1>5. ASSUME NEW c \in Calls, ChildWrites(c) \/ ChildReads(c) \/ ChildExits(c) PROVE IInv'
  BY <1>5, ChildWritesKeeps, ChildReadsKeeps, ChildExitsKeeps
<1> QED BY <1>1, <1>2, <1>3, <1>4, <1>5 DEF Next

\* The invariant that the properties follow from.
THEOREM InvHolds == Spec => []IInv
<1>1. IInv /\ [Next]_vars => IInv'
  BY NextPreserves, StutterPreserves
<1> QED BY InitEstablishes, <1>1, PTL DEF Spec

-----------------------------------------------------------------------------
(* What the invariant says of the properties *)

\* A sequence that counts up to its length, if that is at most n, counts within 1..n.
LEMMA CountsTypes ==
    ASSUME NEW q \in Seq(Nat), NEW n \in Nat, Counts(q), Len(q) <= n
    PROVE  q \in Seq(1..n)
<1>1. Len(q) \in Nat /\ q \in [1..Len(q) -> Nat]
  BY LenProperties
<1>2. \A i \in 1..Len(q) : q[i] \in 1..n
  BY <1>1 DEF Counts
<1>3. q \in [1..Len(q) -> 1..n]
  BY <1>1, <1>2
<1> QED BY <1>1, <1>3, SeqDef

\* It is then a beginning of the numbers up to n.
LEMMA CountsPrefix ==
    ASSUME NEW q \in Seq(Nat), NEW n \in Nat, Counts(q), Len(q) <= n
    PROVE  IsPrefix(q, [i \in 1..n |-> i])
<1> DEFINE all == [i \in 1..n |-> i]
<1>1. all \in Seq(Nat) /\ Len(all) = n /\ \A i \in 1..n : all[i] = i
  <2>1. all \in [1..n -> Nat]
    OBVIOUS
  <2>2. all \in Seq(Nat)
    BY <2>1, SeqDef
  <2>3. DOMAIN all = 1..n
    OBVIOUS
  <2>4. Len(all) = n
    BY <2>2, <2>3, LenProperties
  <2> QED BY <2>2, <2>4
<1> HIDE DEF all
<1>2. Len(q) \in Nat /\ q \in [1..Len(q) -> Nat]
  BY LenProperties
<1>3. ASSUME NEW w \in Seq(Nat), NEW k \in Nat, k <= Len(w)
      PROVE  /\ SubSeq(w, 1, k) \in Seq(Nat) /\ Len(SubSeq(w, 1, k)) = k
             /\ \A i \in 1..k : SubSeq(w, 1, k)[i] = w[i]
  <2>1. Len(w) \in Nat /\ \A i \in 1..k : w[i] \in Nat
    BY <1>3, EntryTypes
  <2>2. /\ SubSeq(w, 1, k) \in Seq(Nat)
        /\ Len(SubSeq(w, 1, k)) = IF 1 <= k THEN k - 1 + 1 ELSE 0
        /\ \A i \in 1..(k - 1 + 1) : SubSeq(w, 1, k)[i] = w[1 + i - 1]
    BY <2>1, SubSeqProperties
  <2>3. ASSUME NEW i \in 1..k PROVE SubSeq(w, 1, k)[i] = w[i]
    <3>1. i \in 1..(k - 1 + 1) /\ 1 + i - 1 = i
      OBVIOUS
    <3> QED BY <2>2, <3>1
  <2> QED BY <2>2, <2>3
<1> DEFINE p == SubSeq(q, 1, Len(q))
           r == SubSeq(all, 1, Len(q))
<1>4. /\ p \in Seq(Nat) /\ Len(p) = Len(q) /\ \A i \in 1..Len(q) : p[i] = q[i]
      /\ r \in Seq(Nat) /\ Len(r) = Len(q) /\ \A i \in 1..Len(q) : r[i] = all[i]
  BY <1>1, <1>2, <1>3
<1>5. p = r
  <2>1. \A i \in 1..Len(p) : p[i] = r[i]
    BY <1>1, <1>2, <1>4 DEF Counts
  <2> HIDE DEF p, r
  <2> QED BY <1>4, <2>1, SeqEqual
<1> QED BY <1>1, <1>2, <1>5 DEF IsPrefix, all

-----------------------------------------------------------------------------
(* The types and the properties                                             *)

\* The variables keep to their types: a call's channel, a connection and a shell's terminal
\* never hold more than they take, and no more arrives of a stream than was written.
THEOREM TypeCorrect == Spec => []TypeOK
<1>1. IInv => TypeOK
  <2> SUFFICES ASSUME IInv PROVE TypeOK
    OBVIOUS
  <2>1. Types
    BY DEF IInv
  <2>2. ASSUME NEW c \in Calls
        PROVE  /\ rx[c] \in Seq(Responses) /\ Len(rx[c]) <= Capacity
               /\ down[c] \in Seq(Responses) /\ Len(down[c]) <= Buffer
               /\ up[c] \in Seq(Requests)
               /\ \A s \in Streams : got[c][s] \in Seq(1..Chunks[s])
               /\ typed[c] \in Seq(1..Inputs)
               /\ child[c].state \in ChildStates
               /\ \A s \in Streams : child[c].unread[s] \in 0..Chunks[s] /\ child[c].read[s] \in 0..Chunks[s]
               /\ child[c].held \in 0..Terminal
    <3>1. Standing(c) /\ Streaming(c)
      BY DEF IInv
    <3>2. /\ rx[c] \in Seq(Responses) /\ Len(rx[c]) <= Capacity
          /\ down[c] \in Seq(Responses) /\ Len(down[c]) <= Buffer
          /\ up[c] \in Seq(Requests)
      BY <2>1, <3>1, CallTypes DEF Standing, Bounds
    <3>3. ASSUME NEW s \in Streams
          PROVE  /\ got[c][s] \in Seq(1..Chunks[s])
                 /\ child[c].unread[s] \in 0..Chunks[s] /\ child[c].read[s] \in 0..Chunks[s]
      <4>1. /\ child[c].read[s] \in Nat /\ child[c].unread[s] \in Nat /\ Chunks[s] \in Nat
            /\ child[c].read[s] + child[c].unread[s] <= Chunks[s]
        BY <2>1, <3>1, ChildTypes, BoundsAssumption DEF Standing, Bounds
      <4>2. /\ got[c][s] \in Seq(Nat) /\ Len(got[c][s]) \in Nat /\ Counts(got[c][s])
            /\ Len(got[c][s]) <= child[c].read[s]
        BY <2>1, <3>1, CallTypes DEF Streaming, Collected
      <4>3. Len(got[c][s]) <= Chunks[s]
        BY <4>1, <4>2
      <4>4. got[c][s] \in Seq(1..Chunks[s])
        BY <4>1, <4>2, <4>3, CountsTypes
      <4> QED BY <4>1, <4>4
    <3>4. typed[c] \in Seq(1..Inputs)
      <4>1. typed[c] \in Seq(Nat) /\ Len(typed[c]) \in Nat /\ Counts(typed[c]) /\ Len(typed[c]) <= Framed(c)
        BY <2>1, <3>1, CallTypes DEF Streaming, Entered
      <4>2. Framed(c) \in Nat /\ Framed(c) <= Inputs
        BY <2>1, <3>1, CallTypes, BoundsAssumption DEF Standing, HostModes, Framed
      <4>3. Len(typed[c]) <= Inputs /\ Inputs \in Nat
        BY <4>1, <4>2, BoundsAssumption
      <4> QED BY <4>1, <4>3, CountsTypes
    <3>5. child[c].state \in ChildStates /\ child[c].held \in 0..Terminal
      BY <2>1, <3>1, ChildTypes, BoundsAssumption DEF Standing, Bounds
    <3> QED BY <3>2, <3>3, <3>4, <3>5
  <2>3. agent \in AgentRecs /\ call \in [Calls -> CallRecs] /\ backlog \in Seq(Calls) /\ dropped \subseteq Calls
    BY <2>1 DEF Types, HostTypes, WireTypes, GuestTypes
  <2> QED BY <2>2, <2>3 DEF TypeOK, CallRecs, CallStates, AgentRecs, Modes, ChildStates
<1> QED BY InvHolds, <1>1, PTL

\* What a caller has of a stream of its command, and a shell of its inputs, is a beginning
\* of what was sent: through the channel of the reading task, the connection, responses
\* that wait for a full buffer and reads of requests that are cancelled, nothing is lost in
\* the middle, doubled or overtaken.
THEOREM StreamsInOrder == Spec => []InOrder
<1>1. IInv => InOrder
  <2> SUFFICES ASSUME IInv PROVE InOrder
    OBVIOUS
  <2>1. ASSUME NEW c \in Calls
        PROVE  /\ \A s \in Streams : IsPrefix(got[c][s], [i \in 1..Chunks[s] |-> i])
               /\ IsPrefix(typed[c], [i \in 1..Inputs |-> i])
    <3>1. Types /\ Standing(c) /\ Streaming(c)
      BY DEF IInv
    <3>2. ASSUME NEW s \in Streams PROVE IsPrefix(got[c][s], [i \in 1..Chunks[s] |-> i])
      <4>1. /\ child[c].read[s] \in Nat /\ child[c].unread[s] \in Nat /\ Chunks[s] \in Nat
            /\ child[c].read[s] + child[c].unread[s] <= Chunks[s]
        BY <3>1, ChildTypes, BoundsAssumption DEF Standing, Bounds
      <4>2. /\ got[c][s] \in Seq(Nat) /\ Len(got[c][s]) \in Nat /\ Counts(got[c][s])
            /\ Len(got[c][s]) <= child[c].read[s]
        BY <3>1, CallTypes DEF Streaming, Collected
      <4>3. Len(got[c][s]) <= Chunks[s]
        BY <4>1, <4>2
      <4> QED BY <4>1, <4>2, <4>3, CountsPrefix
    <3>3. IsPrefix(typed[c], [i \in 1..Inputs |-> i])
      <4>1. typed[c] \in Seq(Nat) /\ Len(typed[c]) \in Nat /\ Counts(typed[c]) /\ Len(typed[c]) <= Framed(c)
        BY <3>1, CallTypes DEF Streaming, Entered
      <4>2. Framed(c) \in Nat /\ Framed(c) <= Inputs
        BY <3>1, CallTypes, BoundsAssumption DEF Standing, HostModes, Framed
      <4>3. Len(typed[c]) <= Inputs /\ Inputs \in Nat
        BY <4>1, <4>2, BoundsAssumption
      <4> QED BY <4>1, <4>3, CountsPrefix
    <3> QED BY <3>2, <3>3
  <2> QED BY <2>1 DEF InOrder
<1> QED BY InvHolds, <1>1, PTL

\* An exec that returns an exit code belongs to a command that has exited, and has all that
\* the agent read of its streams.
THEOREM ExitIsComplete == Spec => []ExitComplete
<1>1. IInv => ExitComplete
  BY DEF IInv, Streaming, Collected, ExitComplete
<1> QED BY InvHolds, <1>1, PTL
=============================================================================
