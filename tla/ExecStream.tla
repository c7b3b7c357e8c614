------------------------------ MODULE ExecStream ------------------------------
(***************************************************************************)
(* One Run or Deploy call once it is let through: internal/execute runs    *)
(* the command, two goroutines copy its output to the gRPC stream through  *)
(* chunkWriter, runStream sends the exit code last, and consumeStream of   *)
(* the controller shows what arrives.  os/exec and grpc are modelled from  *)
(* how this code uses them: bounded pipes, copiers awaited before Run      *)
(* returns, a flow-controlled stream that may break for good.              *)
(***************************************************************************)
EXTENDS Integers, Sequences, FiniteSets

CONSTANTS
  MaxWrites,   \* bound on the writes of a command to each of its outputs
  PipeCap,     \* the writes a pipe holds
  Window,      \* the messages the stream holds before Send waits
  Half,        \* an int32 holds -Half .. Half - 1: 2^31 in the code
  Codes,       \* the codes a command may exit with
  Forks        \* whether a command may leave a descendant on its pipes

ASSUME ExecAssumption ==
  /\ MaxWrites \in Nat /\ PipeCap \in Nat \ {0} /\ Window \in Nat \ {0}
  /\ Half \in Nat \ {0}
  /\ Codes \subseteq 0 .. 2 * Half - 1   \* 8 bits on Unix, a uint32 on Windows
  /\ Forks \in BOOLEAN

VARIABLES
  proc,     \* the command: "new", "running" or "exited"
  code,     \* what it exited with: -1 when a signal ended it
  child,    \* a descendant it left holds its pipes open
  wrote,    \* wrote[o]: writes to output o; write n carries the data n
  read,     \* read[o]: how many of them its copier has read
  copier,   \* copier[o]: "read", "lock", "send", "done" or "failed"
  chunk,    \* chunk[o]: the data it has in hand
  mu,       \* who holds the mutex of safeEmit
  handler,  \* "start", "wait", "code" or "returned"
  status,   \* the status it returned with
  stream,   \* "open", or "broken": connection lost or call cancelled
  wire,     \* messages sent and not received
  shown,    \* shown[o]: data of output o on the controller's terminal
  failed,   \* the outputs of which a write to the terminal has failed
  exit,     \* the exit code consumeStream has so far
  result    \* what it returned: "none" yet, an "error", or the "exit" code

procVars == <<proc, code, child, wrote>>
copyVars == <<read, copier, chunk, mu>>
callVars == <<handler, status>>
clientVars == <<shown, failed, exit, result>>
vars == <<procVars, copyVars, callVars, stream, wire, clientVars>>

Outputs == {"stdout", "stderr"}

\* The exit code of a command a signal ended.
Killed == -1

\* The conversion int32(code), of an int that is -1 or the value of a uint32.
Int32(n) == IF n < Half THEN n ELSE n - 2 * Half

\* The data from..to of an output.
Data(from, to) == [n \in 1 .. to - from + 1 |-> from + n - 1]

Init ==
  /\ proc = "new" /\ code = 0 /\ child = FALSE
  /\ wrote = [o \in Outputs |-> 0]
  /\ read = [o \in Outputs |-> 0]
  /\ copier = [o \in Outputs |-> "read"]
  /\ chunk = [o \in Outputs |-> << >>]
  /\ mu = "free"
  /\ handler = "start" /\ status = "none"
  /\ stream = "open" /\ wire = << >>
  /\ shown = [o \in Outputs |-> << >>]
  /\ failed = {}
  /\ exit = 0 /\ result = "none"

-------------------------------------------------------------------------------
(* The command *)

\* A write waits while the pipe is full; a copier that failed closed its end.
Write(o) ==
  /\ proc = "running" \/ child
  /\ wrote[o] < MaxWrites
  /\ wrote[o] - read[o] < PipeCap
  /\ copier[o] # "failed"
  /\ wrote' = [wrote EXCEPT ![o] = @ + 1]
  /\ UNCHANGED <<proc, code, child, copyVars, callVars, stream, wire, clientVars>>

Fork ==
  /\ Forks
  /\ proc = "running"
  /\ child' = TRUE
  /\ UNCHANGED <<proc, code, wrote, copyVars, callVars, stream, wire, clientVars>>

\* The command exits, or a signal that is not the agent's ends it.
Exit(n) ==
  /\ proc = "running"
  /\ proc' = "exited"
  /\ code' = n
  /\ UNCHANGED <<child, wrote, copyVars, callVars, stream, wire, clientVars>>

ChildEnds ==
  /\ child
  /\ child' = FALSE
  /\ UNCHANGED <<proc, code, wrote, copyVars, callVars, stream, wire, clientVars>>

\* CommandContext kills the command, not its descendants, once the context of
\* the stream is done.
Kill ==
  /\ proc = "running"
  /\ stream = "broken"
  /\ proc' = "exited"
  /\ code' = Killed
  /\ UNCHANGED <<child, wrote, copyVars, callVars, stream, wire, clientVars>>

-------------------------------------------------------------------------------
(* The goroutines of os/exec, each an io.Copy into its chunkWriter *)

Goto(o, step) == copier' = [copier EXCEPT ![o] = step]

\* One read takes what the pipe holds, or part of it.
ReadPipe(o) ==
  /\ handler = "wait"
  /\ copier[o] = "read"
  /\ \E to \in read[o] + 1 .. wrote[o] :
       /\ chunk' = [chunk EXCEPT ![o] = Data(read[o] + 1, to)]
       /\ read' = [read EXCEPT ![o] = to]
  /\ Goto(o, "lock")
  /\ UNCHANGED <<procVars, mu, callVars, stream, wire, clientVars>>

\* The pipe is empty and nobody can write to it any more.
PipeEnds(o) ==
  /\ copier[o] = "read"
  /\ read[o] = wrote[o]
  /\ proc = "exited" /\ ~ child
  /\ Goto(o, "done")
  /\ UNCHANGED <<procVars, read, chunk, mu, callVars, stream, wire, clientVars>>

\* The mutex of safeEmit.  Mutants: taken whoever holds it; not released.
MuIgnored == TRUE
MuFree == mu = "free"
MuKept == UNCHANGED mu
MuUnlock == mu' = "free"

\* The kind of chunk the writer of output o sends.  Mutants: the stderr mark is
\* not looked at; the chunk is of no kind.
Unmarked(o) == "stdout"
OfNoKind(o) == "unset"
Marked(o) == o

\* chunkWriter.Write has copied the data; safeEmit takes the mutex.
LockEmit(o) ==
  /\ copier[o] = "lock"
  /\ MuFree
  /\ mu' = o
  /\ Goto(o, "send")
  /\ UNCHANGED <<procVars, read, chunk, callVars, stream, wire, clientVars>>

\* emit sends the data as a chunk of its output and releases the mutex.
EmitChunk(o) ==
  /\ copier[o] = "send"
  /\ stream = "open"
  /\ Len(wire) < Window
  /\ wire' = Append(wire, [kind |-> Marked(o), data |-> chunk[o]])
  /\ chunk' = [chunk EXCEPT ![o] = << >>]
  /\ MuUnlock
  /\ Goto(o, "read")
  /\ UNCHANGED <<procVars, read, callVars, stream, clientVars>>

\* Send on a broken stream fails: io.Copy stops and closes the pipe.
EmitFails(o) ==
  /\ copier[o] = "send"
  /\ stream = "broken"
  /\ MuUnlock
  /\ Goto(o, "failed")
  /\ UNCHANGED <<procVars, read, chunk, callVars, stream, wire, clientVars>>

-------------------------------------------------------------------------------
(* The handler: execute.Run and the end of runStream *)

\* cmd.Start.
StartCommand ==
  /\ handler = "start"
  /\ proc' = "running"
  /\ handler' = "wait"
  /\ UNCHANGED <<code, child, wrote, copyVars, status, stream, wire, clientVars>>

\* The command is empty, does not exist, or the context is done already.
StartFails ==
  /\ handler = "start"
  /\ handler' = "returned"
  /\ status' = "internal"
  /\ UNCHANGED <<procVars, copyVars, stream, wire, clientVars>>

\* cmd.Wait has the exit of the command and of both copiers.
Waited ==
  /\ handler = "wait"
  /\ proc = "exited"
  /\ \A o \in Outputs : copier[o] \in {"done", "failed"}

\* Run has an exit code: non-zero in spite of a failed copier, since the
\* ExitError comes first, or zero when no copier failed.
RunReturnsCode ==
  /\ Waited
  /\ code # 0 \/ \A o \in Outputs : copier[o] = "done"
  /\ handler' = "code"
  /\ UNCHANGED <<procVars, copyVars, status, stream, wire, clientVars>>

\* The command succeeded and its output could not be sent.
RunReturnsError ==
  /\ Waited
  /\ code = 0 /\ \E o \in Outputs : copier[o] = "failed"
  /\ handler' = "returned"
  /\ status' = "internal"
  /\ UNCHANGED <<procVars, copyVars, stream, wire, clientVars>>

SendCode ==
  /\ handler = "code"
  /\ stream = "open"
  /\ Len(wire) < Window
  /\ wire' = Append(wire, [kind |-> "code", data |-> Int32(code)])
  /\ handler' = "returned"
  /\ status' = "ok"
  /\ UNCHANGED <<procVars, copyVars, stream, clientVars>>

SendCodeFails ==
  /\ handler = "code"
  /\ stream = "broken"
  /\ handler' = "returned"
  /\ status' = "internal"
  /\ UNCHANGED <<procVars, copyVars, stream, wire, clientVars>>

-------------------------------------------------------------------------------
(* The stream and consumeStream *)

\* The connection is lost, or the controller goes away.
Break ==
  /\ stream = "open"
  /\ stream' = "broken"
  /\ UNCHANGED <<procVars, copyVars, callVars, wire, clientVars>>

\* Recv returns output, which goes to the terminal: all of it, or what was
\* written before the write failed, for the error of Write is discarded.
RecvOutput ==
  /\ result = "none"
  /\ wire # << >> /\ Head(wire).kind # "code"
  /\ wire' = Tail(wire)
  /\ LET o == Head(wire).kind
         d == Head(wire).data
     IN  \E k \in 0 .. Len(d) :
           /\ shown' = [shown EXCEPT ![o] = @ \o SubSeq(d, 1, k)]
           /\ failed' = IF k < Len(d) THEN failed \union {o} ELSE failed
  /\ UNCHANGED <<procVars, copyVars, callVars, stream, exit, result>>

\* Recv returns the exit code, which is kept for the end.
RecvCode ==
  /\ result = "none"
  /\ wire # << >> /\ Head(wire).kind = "code"
  /\ wire' = Tail(wire)
  /\ exit' = Head(wire).data
  /\ UNCHANGED <<procVars, copyVars, callVars, stream, shown, failed, result>>

\* Mutant of RecvStatus: whatever the status.
AnyStatusEnds ==
  /\ result = "none"
  /\ wire = << >> /\ handler = "returned" /\ stream = "open"
  /\ result' = "exit"
  /\ UNCHANGED <<procVars, copyVars, callVars, stream, wire, shown, failed, exit>>

\* Recv returns the status of the call, after every message: io.EOF for ok.
RecvStatus ==
  /\ result = "none"
  /\ wire = << >> /\ handler = "returned" /\ stream = "open"
  /\ result' = IF status = "ok" THEN "exit" ELSE "error"
  /\ UNCHANGED <<procVars, copyVars, callVars, stream, wire, shown, failed, exit>>

\* Mutant of RecvFails: any error is taken for the end of the stream.
AnyErrorEnds ==
  /\ result = "none"
  /\ stream = "broken"
  /\ result' = "exit"
  /\ UNCHANGED <<procVars, copyVars, callVars, stream, wire, shown, failed, exit>>

\* Recv fails, with messages still on the way or not.
RecvFails ==
  /\ result = "none"
  /\ stream = "broken"
  /\ result' = "error"
  /\ UNCHANGED <<procVars, copyVars, callVars, stream, wire, shown, failed, exit>>

-------------------------------------------------------------------------------

Copy(o) == ReadPipe(o) \/ PipeEnds(o) \/ LockEmit(o) \/ EmitChunk(o) \/ EmitFails(o)

Handler ==
  \/ StartCommand \/ StartFails
  \/ RunReturnsCode \/ RunReturnsError \/ SendCode \/ SendCodeFails

Client == RecvOutput \/ RecvCode \/ RecvStatus \/ RecvFails

Next ==
  \/ \E o \in Outputs : Write(o) \/ Copy(o)
  \/ Fork \/ ChildEnds \/ Kill
  \/ \E n \in Codes \union {Killed} : Exit(n)
  \/ Handler \/ Client \/ Break

Spec == Init /\ [][Next]_vars

\* The goroutines of the agent run, a mutex that is released again and again is
\* had in the end, the context is watched, the controller reads its stream, and
\* descendants of a command do not hold its pipes for ever.
FairSpec ==
  /\ Spec
  /\ \A o \in Outputs : WF_vars(Copy(o)) /\ SF_vars(LockEmit(o))
  /\ WF_vars(Handler) /\ WF_vars(Kill) /\ WF_vars(Client) /\ WF_vars(ChildEnds)

-------------------------------------------------------------------------------

Steps == {"read", "lock", "send", "done", "failed"}
Message == [kind : Outputs, data : Seq(Nat)] \union [kind : {"code"}, data : Int]

\* Every variable holds a value of its kind.
TypeOK ==
  /\ proc \in {"new", "running", "exited"}
  /\ code \in Int
  /\ child \in BOOLEAN
  /\ wrote \in [Outputs -> Nat]
  /\ read \in [Outputs -> Nat]
  /\ copier \in [Outputs -> Steps]
  /\ chunk \in [Outputs -> Seq(Nat)]
  /\ mu \in Outputs \union {"free"}
  /\ handler \in {"start", "wait", "code", "returned"}
  /\ status \in {"none", "ok", "internal"}
  /\ stream \in {"open", "broken"}
  /\ wire \in Seq(Message)
  /\ shown \in [Outputs -> Seq(Nat)]
  /\ failed \subseteq Outputs
  /\ exit \in Int
  /\ result \in {"none", "error", "exit"}

\* The copiers and the handler are never in Send of the one stream together
\* (execute.go: "emit is serialized, so it is safe to send on a gRPC stream").
Sending == {o \in Outputs : copier[o] = "send"} \union
           (IF handler = "code" THEN {"handler"} ELSE {})
OneSender == \A a, b \in Sending : a = b

\* What is on the terminal of an output stands in the order in which the command
\* wrote it, nothing repeated; and up to the last of it nothing is missing, unless
\* a write to the terminal failed.
PrintedInOrder ==
  \A o \in Outputs :
    /\ \A i, j \in 1 .. Len(shown[o]) : i < j => shown[o][i] < shown[o][j]
    /\ o \notin failed => shown[o] = Data(1, Len(shown[o]))

\* A controller that reports an exit code reports success only of a command that
\* succeeded, and the very code whenever an int32 can hold it; and it has printed
\* everything the command and its descendants wrote, but for what its own
\* terminal refused: no code covers output that was lost on the way, though a
\* non-zero one hides the error of the copiers in Run.
ReportIsTrue ==
  result = "exit" =>
    /\ proc = "exited"
    /\ exit = 0 <=> code = 0
    /\ code < Half => exit = code
    /\ \A o \in Outputs : o \notin failed => shown[o] = Data(1, wrote[o])

\* The copiers, the stream and consumeStream together keep the promise of
\* CommandOutput: output in order and nothing after the end, an exit code only
\* when all of the output is there that the terminal took, an error otherwise.
CO == INSTANCE CommandOutput WITH
  Faithful <- -Half .. Half - 1,
  life <- IF proc # "exited" THEN "alive" ELSE IF child THEN "exited" ELSE "over",
  outcome <- [kind |-> result, code |-> IF result = "exit" THEN exit ELSE 0]
ImplementsCommandOutput == CO!Spec

\* A call whose command has exited, or whose controller is gone, comes to its
\* end on both sides, though each copier may wait for the other, for the window
\* of the stream or for the pipe.  Assumed is that the descendants of the command
\* let go of its pipes in the end: without a WaitDelay, Run waits for them.
CallEnds ==
  proc = "exited" \/ stream = "broken" ~> handler = "returned" /\ result # "none"
===============================================================================
