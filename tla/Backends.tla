------------------------------ MODULE Backends ------------------------------
(* Embedders built by name and embedders in other processes.  A specification*)
(* is a tree of named components, which the registries resolve (src/plugin)  *)
(* into leaves that answer by themselves, post to a server or write to a     *)
(* child process, and into decorators that retry and fall back               *)
(* (include/rag/dense/backends.hpp).  The line protocol with a child         *)
(* (src/bridge/process.cpp) has no request numbers: an answer belongs to the *)
(* request that waits for it, so a channel must never get out of step.       *)
(*                                                                           *)
(* A text is the number of the request that embeds it; vectors are told      *)
(* apart by the text they are of.  A peer is honest: it answers each line it *)
(* reads with one line, until it dies, perhaps in the middle of a line.      *)
EXTENDS Integers, Sequences

CONSTANTS
    MaxRequests,   \* bound: embed calls
    MaxThreads     \* bound: calls in flight at once, where the embedder wants more

VARIABLES
    bPlan,         \* the specification, the host's io and the plugin directory
    bTree,         \* the embedder that was built, or the error
    bChans,        \* the line channels and their peers, by place in the specification
    bCalls,        \* the calls in flight, by thread
    bNext          \* the number of the next request

backendVars == <<bPlan, bTree, bChans, bCalls, bNext>>

NoReply == [ok |-> FALSE, code |-> "none"]
Answer(r) == [ok |-> TRUE, of |-> r]
Failure(c) == [ok |-> FALSE, code |-> c]
Transient(r) == ~r.ok /\ r.code \in {"transport_error", "unavailable"}

-----------------------------------------------------------------------------
\* load_plugin_dir: the libraries of the directory in the order of their
\* paths; each registers its names over what is there, one that does not load
\* is skipped.
ServerTypes == {"ollama", "openai", "voyage", "llamacpp"}
LocalTypes == {"onnx", "gguf"}
BuiltinNames == {"hash", "retry", "fallback", "process", "http", "rest"} \cup ServerTypes \cup LocalTypes

Registered(dir) ==
    LET at[n \in 0 .. Len(dir)] ==
            IF n = 0 THEN [name \in BuiltinNames |-> "builtin"]
            ELSE LET before == at[n - 1]
                     file == dir[n]
                     new == IF file.library /\ file.loads THEN file.names ELSE {}
                 IN [name \in DOMAIN before \cup new |->
                        IF name \in new THEN file.path ELSE before[name]]
    IN at[Len(dir)]

\* The first of the keys a component has: its name is looked for under several.
FirstGiven(names, keys) ==
    IF \E i \in DOMAIN keys : keys[i] \in DOMAIN names
    THEN names[keys[CHOOSE i \in DOMAIN keys :
                       keys[i] \in DOMAIN names
                       /\ \A j \in 1 .. i - 1 : keys[j] \notin DOMAIN names]]
    ELSE ""
TypeOf(node) == FirstGiven(node.names, <<"type", "backend", "name", "kind">>)
TransportOf(node) == FirstGiven(node.names, <<"transport", "type", "channel">>)

Wrong(c) == [kind |-> "error", code |-> c]
Leaf(kind, i, width) == [kind |-> kind, place |-> i, width |-> width]

\* open_channel, which looks for the transport under keys of its own.
RemoteEmbedder(node, i, io) ==
    CASE TransportOf(node) \in {"process", "subprocess"} ->
            IF ~io.spawn THEN Wrong("unavailable")
            ELSE IF ~node.argv THEN Wrong("invalid_argument") ELSE Leaf("line", i, 1)
      [] TransportOf(node) \in {"http", "rest"} ->
            IF ~io.http THEN Wrong("unavailable") ELSE Leaf("rest", i, 1)
      [] OTHER -> Wrong("not_found")

\* RetryingEmbedder::max_concurrency, and FallbackEmbedder's.
RetryOf(inner, attempts) ==
    [kind |-> "retry", inner |-> inner, attempts |-> attempts, width |-> inner.width]
FallbackOf(primary, secondary) ==
    [kind |-> "fallback", primary |-> primary, secondary |-> secondary,
     width |-> IF primary.width < secondary.width THEN primary.width ELSE secondary.width]

IsError(e) == e.kind = "error"

\* The factories of the built-in backends.  A server needs the host's HTTP, a
\* model in this process a build that has it; a decorator resolves what it is
\* made of through the same registries: inner, or primary and secondary, is
\* what became of the component at the place the node names, 0 for none.
ServerEmbedder(i, io) == IF io.http THEN Leaf("server", i, 4) ELSE Wrong("unavailable")
LocalEmbedder == Wrong("unavailable")
RetryEmbedder(node, inner) ==
    IF node.inner = 0 THEN Wrong("invalid_argument")
    ELSE IF IsError(inner) THEN inner ELSE RetryOf(inner, node.attempts)
FallbackEmbedder(node, primary, secondary) ==
    IF node.primary = 0 \/ node.secondary = 0 THEN Wrong("invalid_argument")
    ELSE IF IsError(secondary) \/ IsError(primary) THEN secondary
    ELSE FallbackOf(primary, secondary)

\* create_from: a component is looked up by its name.
Build(p) ==
    LET registry == Registered(p.plugins)
        built[i \in DOMAIN p.spec] ==
            LET node == p.spec[i]
                type == TypeOf(node)
            IN CASE type = "" -> Wrong("invalid_argument")
                 [] type \notin {""} \cup DOMAIN registry -> Wrong("not_found")
                 [] type \in DOMAIN registry /\ registry[type] # "builtin" -> Leaf("plugin", i, 1)
                 [] OTHER ->
                    CASE type = "hash"     -> Leaf("hash", i, 1)
                      [] type \in ServerTypes  -> ServerEmbedder(i, p.io)
                      [] type \in LocalTypes   -> LocalEmbedder
                      [] type = "retry"    -> RetryEmbedder(node, built[node.inner])
                      [] type = "fallback" ->
                            FallbackEmbedder(node, built[node.primary], built[node.secondary])
                      [] OTHER             -> RemoteEmbedder(node, i, p.io)
    IN built[1]

-----------------------------------------------------------------------------
NewChannel == [alive |-> TRUE, inbuf |-> << >>, requests |-> << >>, pipe |-> << >>, runs |-> TRUE]
NoCall == [of |-> 0, stack |-> << >>, reply |-> NoReply]
Frame(e) == [e |-> e, tries |-> 0, second |-> FALSE, wrote |-> FALSE]

BackendsInit(plans) ==
    /\ bPlan \in plans
    /\ bTree = Build(bPlan)
    /\ bChans = [i \in DOMAIN bPlan.spec |-> NewChannel]
    /\ bCalls = [t \in 1 .. MaxThreads |-> NoCall]
    /\ bNext = 1

Top(t) == bCalls[t].stack[Len(bCalls[t].stack)]
Running(t) == bCalls[t].stack # << >> /\ bCalls[t].reply = NoReply
Below(stack) == SubSeq(stack, 1, Len(stack) - 1)
Chan(t) == bChans[Top(t).e.place]

Replies(t, r) ==
    /\ bCalls' = [bCalls EXCEPT ![t].reply = r]
    /\ UNCHANGED <<bPlan, bTree, bNext>>

\* A host has as many calls in flight as max_concurrency() says it may.
Begin(t) ==
    /\ ~IsError(bTree) /\ t <= bTree.width /\ bCalls[t].stack = << >> /\ bNext <= MaxRequests
    /\ bCalls' = [bCalls EXCEPT ![t] = [of |-> bNext, stack |-> <<Frame(bTree)>>, reply |-> NoReply]]
    /\ bNext' = bNext + 1
    /\ UNCHANGED <<bPlan, bTree, bChans>>

\* A server may fail, answer what is not JSON or JSON that is not vectors; a
\* wrong type inside the vectors is thrown by the JSON library.  An answer over
\* REST that is not JSON is a transport error.
ServerReplies(r) ==
    {Answer(r), Failure("transport_error"), Failure("parse_error"), Failure("exception")}
RestReplies(r) == {Answer(r), Failure("transport_error"), Failure("exception")}

\* A leaf without a line channel; the hash always answers.
AskLeaf(t) ==
    /\ Running(t) /\ Top(t).e.kind \in {"hash", "plugin", "server", "rest"}
    /\ \E r \in CASE Top(t).e.kind \in {"hash", "plugin"} -> {Answer(bCalls[t].of)}
                  [] Top(t).e.kind = "server" -> ServerReplies(bCalls[t].of)
                  [] Top(t).e.kind = "rest" -> RestReplies(bCalls[t].of) :
          Replies(t, r)
    /\ UNCHANGED bChans

\* Broken variant: a channel whose write failed is used again.
WriteFailedStays(t) ==
    /\ Chan(t).alive
    /\ \E got \in {<< >>, <<bCalls[t].of>>} :
          /\ got # << >> => Chan(t).runs
          /\ bChans' = [bChans EXCEPT ![Top(t).e.place].requests = @ \o got]
    /\ Replies(t, Failure("transport_error"))
\* A write that fails may have reached the peer; the channel is given up.
WriteFailed(t) ==
    /\ Chan(t).alive
    /\ \E got \in {<< >>, <<bCalls[t].of>>} :
          /\ got # << >> => Chan(t).runs
          /\ bChans' = [bChans EXCEPT ![Top(t).e.place].requests = @ \o got,
                                      ![Top(t).e.place].alive = FALSE]
    /\ Replies(t, Failure("transport_error"))

\* LineChannel::call, up to the write.
WriteLine(t) ==
    /\ Running(t) /\ Top(t).e.kind = "line" /\ ~Top(t).wrote
    /\ \/ ~Chan(t).alive /\ Replies(t, Failure("transport_error")) /\ UNCHANGED bChans
       \/ /\ Chan(t).alive /\ Chan(t).runs
          /\ bChans' = [bChans EXCEPT ![Top(t).e.place].requests = Append(@, bCalls[t].of)]
          /\ bCalls' = [bCalls EXCEPT ![t].stack[Len(bCalls[t].stack)].wrote = TRUE]
          /\ UNCHANGED <<bPlan, bTree, bNext>>
       \/ WriteFailed(t)

\* What the caller makes of a line: one that is not JSON, an error and an
\* answer without vectors are transport errors.
Unwrapped(line) == line.holds \notin {"not JSON", "error"}
Parsed(line) ==
    CASE ~Unwrapped(line) \/ line.holds = "no vectors" -> Failure("transport_error")
      [] line.holds = "wrong type" -> Failure("exception")
      [] OTHER -> Answer(line.of)

\* read_line: the first line of the buffer, else what the pipe has of it; at the
\* end of the pipe the channel is given up and a rest without newline is a line.
ReadLine(t) ==
    /\ Running(t) /\ Top(t).e.kind = "line" /\ Top(t).wrote
    /\ LET c == Chan(t)
           i == Top(t).e.place
       IN \/ /\ Len(c.inbuf) >= 2
             /\ bChans' = [bChans EXCEPT ![i].inbuf = SubSeq(@, 3, Len(@))]
             /\ Replies(t, Parsed(c.inbuf[1]))
          \/ /\ Len(c.inbuf) < 2 /\ c.pipe # << >>
             /\ \E n \in 1 .. Len(c.pipe) :
                   bChans' = [bChans EXCEPT ![i].inbuf = @ \o SubSeq(c.pipe, 1, n),
                                            ![i].pipe = SubSeq(@, n + 1, Len(@))]
             /\ UNCHANGED <<bPlan, bTree, bCalls, bNext>>
          \/ /\ Len(c.inbuf) < 2 /\ c.pipe = << >> /\ ~c.runs
             /\ bChans' = [bChans EXCEPT ![i].inbuf = << >>, ![i].alive = FALSE]
             /\ Replies(t, IF c.inbuf = << >> THEN Failure("transport_error")
                           ELSE Parsed(c.inbuf[1]))

\* The decorators ask what they are made of; no attempt at all is a failure.
Descend(t) ==
    /\ Running(t) /\ Top(t).e.kind \in {"retry", "fallback"}
    /\ LET e == Top(t).e
           n == Len(bCalls[t].stack)
       IN \/ /\ e.kind = "retry" /\ e.attempts <= 0
             /\ Replies(t, Failure("unavailable"))
          \/ /\ e.kind = "retry" /\ e.attempts > 0
             /\ bCalls' = [bCalls EXCEPT
                    ![t].stack = Append([@ EXCEPT ![n].tries = 1], Frame(e.inner))]
          \/ /\ e.kind = "fallback"
             /\ bCalls' = [bCalls EXCEPT ![t].stack = Append(@, Frame(e.primary))]
    /\ UNCHANGED <<bPlan, bTree, bChans, bNext>>

\* A reply goes to the frame below, which passes it on or, when the failure is
\* transient, tries again or asks the secondary.
PassUp(t) ==
    /\ bCalls[t].stack # << >> /\ bCalls[t].reply # NoReply
    /\ LET r == bCalls[t].reply
           stack == Below(bCalls[t].stack)
           n == Len(stack)
           e == stack[n].e
           again == n > 0 /\ e.kind = "retry" /\ Transient(r) /\ stack[n].tries < e.attempts
           other == n > 0 /\ e.kind = "fallback" /\ Transient(r) /\ ~stack[n].second
       IN bCalls' = [bCalls EXCEPT
             ![t].stack = IF again THEN Append([stack EXCEPT ![n].tries = @ + 1], Frame(e.inner))
                          ELSE IF other
                          THEN Append([stack EXCEPT ![n].second = TRUE], Frame(e.secondary))
                          ELSE stack,
             ![t].reply = IF again \/ other THEN NoReply ELSE r]
    /\ UNCHANGED <<bPlan, bTree, bChans, bNext>>

-----------------------------------------------------------------------------
Line(r, holds) == [of |-> r, holds |-> holds]
Terminator == [of |-> 0, holds |-> "newline"]

\* The peer answers the next request with one line, whatever it holds.
PeerAnswers(i) ==
    /\ bChans[i].runs /\ bChans[i].requests # << >>
    /\ \E holds \in {"vectors", "error", "no vectors", "not JSON", "wrong type"} :
          bChans' = [bChans EXCEPT
             ![i].requests = Tail(@),
             ![i].pipe = @ \o <<Line(Head(bChans[i].requests), holds), Terminator>>]
    /\ UNCHANGED <<bPlan, bTree, bCalls, bNext>>

\* The peer dies, between two lines or in the middle of one: what it wrote is
\* still in the pipe.
PeerDies(i) ==
    /\ bChans[i].runs
    /\ \E rest \in {<< >>} \cup (IF bChans[i].requests = << >> THEN {}
                                 ELSE {<<Line(Head(bChans[i].requests), h)>> :
                                          h \in {"vectors", "not JSON"}}) :
          bChans' = [bChans EXCEPT ![i].runs = FALSE, ![i].requests = << >>, ![i].pipe = @ \o rest]
    /\ UNCHANGED <<bPlan, bTree, bCalls, bNext>>

\* The places of the specification that became line channels.
RECURSIVE Channels(_)
Channels(e) ==
    CASE e.kind = "line" -> {e.place}
      [] e.kind = "retry" -> Channels(e.inner)
      [] e.kind = "fallback" -> Channels(e.primary) \cup Channels(e.secondary)
      [] OTHER -> {}

BackendsNext ==
    \/ \E t \in 1 .. MaxThreads :
          Begin(t) \/ AskLeaf(t) \/ WriteLine(t) \/ ReadLine(t) \/ Descend(t) \/ PassUp(t)
    \/ \E i \in Channels(bTree) : PeerAnswers(i) \/ PeerDies(i)

-----------------------------------------------------------------------------
\* An embedder that has one inside that always answers.
RECURSIVE HasNet(_)
HasNet(e) ==
    CASE e.kind \in {"hash", "plugin"} -> TRUE
      [] e.kind = "retry" -> e.attempts > 0 /\ HasNet(e.inner)
      [] e.kind = "fallback" -> HasNet(e.primary) \/ HasNet(e.secondary)
      [] OTHER -> FALSE

Ended(t) == bCalls[t].of # 0 /\ bCalls[t].stack = << >>

\* An answer is of the texts that were asked for, whatever failed, was retried
\* or died before, and although lines carry no number (process.cpp:26-51); and a
\* call ends in a transient failure only when nothing in the tree always
\* answers (backends.hpp:145-191).
AnswersAreOwn ==
    \A t \in 1 .. MaxThreads :
       Ended(t) => /\ bCalls[t].reply.ok => bCalls[t].reply.of = bCalls[t].of
                   /\ Transient(bCalls[t].reply) => ~HasNet(bTree)
=============================================================================
