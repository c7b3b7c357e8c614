--------------------------- MODULE ExecStreamProofs ---------------------------
(***************************************************************************)
(* What a Run or Deploy call guarantees of its output, for every number of *)
(* writes, every size of pipe and window, every width of an int32 and      *)
(* every exit code, whenever the stream breaks and whatever the terminal   *)
(* refuses: its types, one sender on the stream, output printed in order,  *)
(* without gaps that the terminal did not make, an exit code that covers   *)
(* no output lost on the way, and that the call implements CommandOutput.  *)
(***************************************************************************)
EXTENDS ExecStream, SequenceTheorems, TLAPS

\* How much of output o the stream has taken.
Sent(o) == read[o] - Len(chunk[o])

\* A copier has in hand what it has read and not sent, and sends it alone; it
\* is done when there is nothing more to come, and fails on a broken stream.
CopierOK(o) ==
  /\ read[o] <= wrote[o]
  /\ Sent(o) \in Nat /\ chunk[o] = Data(Sent(o) + 1, read[o])
  /\ copier[o] \in {"read", "done"} => chunk[o] = << >>
  /\ copier[o] \in {"lock", "send"} => chunk[o] # << >>
  /\ copier[o] = "send" => mu = o
  /\ copier[o] = "done" => read[o] = wrote[o] /\ proc = "exited" /\ ~ child
  /\ copier[o] = "failed" => stream = "broken"
CopiersOK == \A o \in Outputs : CopierOK(o)

\* Message m takes output o from its first a writes to its first b.
Carries(m, o, a, b) == IF m.kind = o THEN a < b /\ m.data = Data(a + 1, b) ELSE a = b

\* Of output o the controller has received the first a writes, and shows them
\* unless its terminal failed.
Received(o, a) ==
  /\ o \notin failed => Len(shown[o]) = a
  /\ \A i \in 1 .. Len(shown[o]) : shown[o][i] <= a

\* The messages on the way continue what was received up to what was sent: cut[i]
\* is how much of o there is after the first i of them.
Covers(cut, o) ==
  /\ Received(o, cut[0])
  /\ cut[Len(wire)] = Sent(o)
  /\ \A i \in 1 .. Len(wire) : Carries(wire[i], o, cut[i - 1], cut[i])
Cuts(n, top) == [0 .. n -> 0 .. top]
InTransit(o) == \E cut \in Cuts(Len(wire), read[o]) : Covers(cut, o)
TransitOK == PrintedInOrder /\ \A o \in Outputs : InTransit(o)

\* The exit code is the last message, or has arrived.
CodeOnTheWay ==
  IF wire = << >> THEN exit = Int32(code)
  ELSE wire[Len(wire)].kind = "code" /\ wire[Len(wire)].data = Int32(code)

\* The handler sends the exit code after the command and both copiers, and the
\* controller reports one when it has that and all before it.
CallOK ==
  /\ code \in -1 .. 2 * Half - 1
  /\ handler = "start" => proc = "new"
  /\ handler = "code" \/ status = "ok" =>
       proc = "exited" /\ \A o \in Outputs : copier[o] \in {"done", "failed"}
  /\ status = "ok" => handler = "returned" /\ CodeOnTheWay
  /\ result = "exit" =>
       status = "ok" /\ wire = << >> /\ \A o \in Outputs : copier[o] = "done"

ExecInv ==
  /\ TypeOK
  /\ CopiersOK
  /\ TransitOK
  /\ CallOK
-------------------------------------------------------------------------------
(* Data *)

\* The writes after the first a, up to b.
LEMMA DataSeq ==
  ASSUME NEW a \in Nat, NEW b \in Nat, a <= b
  PROVE  /\ Data(a + 1, b) \in Seq(Nat)
         /\ Len(Data(a + 1, b)) = b - a
         /\ \A n \in 1 .. b - a : Data(a + 1, b)[n] = a + n
<1> DEFINE k == b - a
<1>1. k \in Nat /\ b - (a + 1) + 1 = k
  OBVIOUS
<1>2. Data(a + 1, b) = [n \in 1 .. k |-> a + 1 + n - 1]
  BY <1>1 DEF Data
<1> HIDE DEF k
<1>3. Data(a + 1, b) \in [1 .. k -> Nat]
  BY <1>1, <1>2
<1>4. Data(a + 1, b) \in Seq(Nat)
  BY <1>1, <1>3, SeqDef
<1>5. Len(Data(a + 1, b)) = k
  BY <1>1, <1>3, <1>4, LenProperties
<1>6. \A n \in 1 .. k : Data(a + 1, b)[n] = a + n
  BY <1>1, <1>2
<1> QED
  BY <1>4, <1>5, <1>6 DEF k

\* The first b writes.
LEMMA DataFirst ==
  ASSUME NEW b \in Nat
  PROVE  /\ Data(1, b) \in Seq(Nat)
         /\ Len(Data(1, b)) = b
         /\ \A n \in 1 .. b : Data(1, b)[n] = n
<1>1. 0 \in Nat /\ 0 <= b /\ 0 + 1 = 1 /\ b - 0 = b
  OBVIOUS
<1>2. /\ Data(0 + 1, b) \in Seq(Nat)
      /\ Len(Data(0 + 1, b)) = b - 0
      /\ \A n \in 1 .. b - 0 : Data(0 + 1, b)[n] = 0 + n
  BY <1>1, DataSeq
<1> QED
  BY <1>1, <1>2

\* What continues the first a writes makes them the first b.
LEMMA DataJoin ==
  ASSUME NEW a \in Nat, NEW b \in Nat, a <= b
  PROVE  Data(1, a) \o Data(a + 1, b) = Data(1, b)
<1> DEFINE s == Data(1, a)
           t == Data(a + 1, b)
           u == Data(1, b)
<1>1. s \in Seq(Nat) /\ Len(s) = a /\ \A n \in 1 .. a : s[n] = n
  BY DataFirst
<1>2. t \in Seq(Nat) /\ Len(t) = b - a /\ \A n \in 1 .. b - a : t[n] = a + n
  BY DataSeq
<1>3. u \in Seq(Nat) /\ Len(u) = b /\ \A n \in 1 .. b : u[n] = n
  BY DataFirst
<1> HIDE DEF s, t, u
<1>4. Len(s) + Len(t) = b
  BY <1>1, <1>2
<1>5. /\ s \o t \in Seq(Nat)
      /\ Len(s \o t) = Len(s) + Len(t)
      /\ \A n \in 1 .. Len(s) + Len(t) : (s \o t)[n] = IF n <= Len(s) THEN s[n] ELSE t[n - Len(s)]
  BY <1>1, <1>2, ConcatProperties
<1> DEFINE v == s \o t
<1> HIDE DEF v
<1>6. v \in Seq(Nat) /\ Len(v) = b
  BY <1>4, <1>5 DEF v
<1>7. \A n \in 1 .. b : v[n] = IF n <= a THEN s[n] ELSE t[n - a]
  BY <1>1, <1>4, <1>5 DEF v
<1>8. \A n \in 1 .. b : v[n] = u[n]
  BY <1>1, <1>2, <1>3, <1>7
<1>9. v = u
  BY <1>3, <1>6, <1>8, SeqEqual
<1> QED
  BY <1>9 DEF s, t, u, v

\* Nothing is in hand.
LEMMA DataEmpty ==
  ASSUME NEW a \in Nat
  PROVE  Data(a + 1, a) = << >>
<1>1. Data(a + 1, a) \in Seq(Nat) /\ Len(Data(a + 1, a)) = 0
  BY DataSeq
<1> QED
  BY <1>1, EmptySeq

\* The first k of the writes after the first a.
LEMMA DataPrefix ==
  ASSUME NEW a \in Nat, NEW b \in Nat, a <= b, NEW k \in 0 .. b - a
  PROVE  SubSeq(Data(a + 1, b), 1, k) = Data(a + 1, a + k)
<1> DEFINE t == Data(a + 1, b)
           u == Data(a + 1, a + k)
<1>1. t \in Seq(Nat) /\ Len(t) = b - a /\ \A n \in 1 .. b - a : t[n] = a + n
  BY DataSeq
<1>2. k \in Nat /\ a + k \in Nat /\ a <= a + k /\ (a + k) - a = k /\ k <= b - a
  OBVIOUS
<1>3. u \in Seq(Nat) /\ Len(u) = k /\ \A n \in 1 .. k : u[n] = a + n
  BY <1>2, DataSeq
<1> HIDE DEF t, u
<1>4. 1 \in 1 .. Len(t) + 1 /\ k \in 1 - 1 .. Len(t) /\ k - 1 + 1 = k
  BY <1>1, <1>2
<1>5. /\ SubSeq(t, 1, k) \in Seq(Nat)
      /\ Len(SubSeq(t, 1, k)) = k
      /\ \A n \in 1 .. k : SubSeq(t, 1, k)[n] = t[n]
  BY <1>1, <1>2, <1>4, SubSeqProperties
<1>6. \A n \in 1 .. k : SubSeq(t, 1, k)[n] = u[n]
  BY <1>1, <1>2, <1>3, <1>5
<1>7. SubSeq(t, 1, k) = u
  BY <1>3, <1>5, <1>6, SeqEqual
<1> QED
  BY <1>7 DEF t, u

\* What stands in order up to a, with some of the writes after a.
LEMMA ShownMore ==
  ASSUME NEW s \in Seq(Nat), NEW a \in Nat, NEW k \in Nat,
         \A i, j \in 1 .. Len(s) : i < j => s[i] < s[j],
         \A i \in 1 .. Len(s) : s[i] <= a
  PROVE  LET t == s \o Data(a + 1, a + k)
         IN  /\ t \in Seq(Nat) /\ Len(t) = Len(s) + k
             /\ \A i, j \in 1 .. Len(t) : i < j => t[i] < t[j]
             /\ \A i \in 1 .. Len(t) : t[i] <= a + k
<1> DEFINE d == Data(a + 1, a + k)
           t == s \o d
           l == Len(s)
<1>1. a + k \in Nat /\ a <= a + k /\ (a + k) - a = k
  OBVIOUS
<1>2. d \in Seq(Nat) /\ Len(d) = k /\ \A n \in 1 .. k : d[n] = a + n
  BY <1>1, DataSeq
<1> HIDE DEF d
<1>3. l \in Nat /\ \A i \in 1 .. l : s[i] \in Nat
  BY LenProperties
<1>4. /\ t \in Seq(Nat) /\ Len(t) = l + k
      /\ \A n \in 1 .. l + k : t[n] = IF n <= l THEN s[n] ELSE d[n - l]
  BY <1>2, ConcatProperties
<1> HIDE DEF t, l
<1>5. \A n \in 1 .. l + k : n <= l => n \in 1 .. l /\ t[n] = s[n] /\ t[n] \in Nat /\ t[n] <= a
  BY <1>3, <1>4 DEF l
<1>6. \A n \in 1 .. l + k : l < n => t[n] = a + (n - l)
  <2> TAKE n \in 1 .. l + k
  <2> HAVE l < n
  <2>1. n - l \in 1 .. k /\ ~ (n <= l)
    BY <1>3
  <2> QED
    BY <1>2, <1>4, <2>1
<1>7. \A i, j \in 1 .. l + k : i < j => t[i] < t[j]
  <2> TAKE i, j \in 1 .. l + k
  <2> HAVE i < j
  <2>1. CASE j <= l
    <3>1. i <= l
      BY <1>3, <2>1
    <3>2. i \in 1 .. l /\ j \in 1 .. l /\ t[i] = s[i] /\ t[j] = s[j]
      BY <1>5, <2>1, <3>1
    <3> QED
      BY <3>2 DEF l
  <2>2. CASE l < j /\ i <= l
    <3>1. t[i] \in Nat /\ t[i] <= a /\ t[j] = a + (j - l)
      BY <1>5, <1>6, <2>2
    <3> QED
      BY <1>3, <2>2, <3>1
  <2>3. CASE l < j /\ l < i
    <3>1. t[i] = a + (i - l) /\ t[j] = a + (j - l)
      BY <1>6, <2>3
    <3> QED
      BY <1>3, <3>1
  <2> QED
    BY <1>3, <2>1, <2>2, <2>3
<1>8. \A n \in 1 .. l + k : t[n] <= a + k
  <2> TAKE n \in 1 .. l + k
  <2>1. CASE n <= l
    BY <1>5, <2>1
  <2>2. CASE l < n
    BY <1>3, <1>6, <2>2
  <2> QED
    BY <1>3, <2>1, <2>2
<1>9. /\ t \in Seq(Nat) /\ Len(t) = l + k
      /\ \A i, j \in 1 .. Len(t) : i < j => t[i] < t[j]
      /\ \A i \in 1 .. Len(t) : t[i] <= a + k
  BY <1>4, <1>7, <1>8
<1> QED
  BY <1>9 DEF d, t, l

-------------------------------------------------------------------------------
(* Types *)

\* What a message of each kind holds.
LEMMA MessageData ==
  ASSUME NEW m \in Message
  PROVE  /\ m.kind \in Outputs => m.data \in Seq(Nat)
         /\ m.kind = "code" => m.data \in Int
         /\ m.kind \in Outputs \union {"code"}
BY DEF Message, Outputs

\* Every step keeps every variable in its type.
LEMMA TypeStep ==
  ASSUME TypeOK, CopiersOK, [Next]_vars
  PROVE  TypeOK'
<1> USE ExecAssumption
    DEF TypeOK, Steps, Goto, procVars, copyVars, callVars, clientVars
<1>1. ASSUME NEW o \in Outputs, Write(o) PROVE TypeOK'
  BY <1>1 DEF Write
<1>2. ASSUME Fork PROVE TypeOK'
  BY <1>2 DEF Fork
<1>3. ASSUME NEW n \in Codes \union {Killed}, Exit(n) PROVE TypeOK'
  BY <1>3 DEF Exit, Killed
<1>4. ASSUME ChildEnds PROVE TypeOK'
  BY <1>4 DEF ChildEnds
<1>5. ASSUME Kill PROVE TypeOK'
  BY <1>5 DEF Kill, Killed
<1>6. ASSUME NEW o \in Outputs, ReadPipe(o) PROVE TypeOK'
  <2>1. PICK to \in read[o] + 1 .. wrote[o] :
          /\ chunk' = [chunk EXCEPT ![o] = Data(read[o] + 1, to)]
          /\ read' = [read EXCEPT ![o] = to]
    BY <1>6 DEF ReadPipe
  <2>2. to \in Nat /\ Data(read[o] + 1, to) \in Seq(Nat)
    BY <2>1, DataSeq
  <2> QED
    BY <1>6, <2>1, <2>2 DEF ReadPipe
<1>7. ASSUME NEW o \in Outputs, PipeEnds(o) PROVE TypeOK'
  BY <1>7 DEF PipeEnds
<1>8. ASSUME NEW o \in Outputs, LockEmit(o) PROVE TypeOK'
  BY <1>8 DEF LockEmit, MuFree
<1>9. ASSUME NEW o \in Outputs, EmitChunk(o) PROVE TypeOK'
  <2>1. [kind |-> o, data |-> chunk[o]] \in Message
    BY DEF Message
  <2>2. wire' \in Seq(Message)
    BY <1>9, <2>1, AppendProperties DEF EmitChunk, Marked
  <2>3. << >> \in Seq(Nat)
    BY EmptySeq
  <2> QED
    BY <1>9, <2>2, <2>3 DEF EmitChunk, MuUnlock
<1>10. ASSUME NEW o \in Outputs, EmitFails(o) PROVE TypeOK'
  BY <1>10 DEF EmitFails, MuUnlock
<1>11. ASSUME StartCommand PROVE TypeOK'
  BY <1>11 DEF StartCommand
<1>12. ASSUME StartFails PROVE TypeOK'
  BY <1>12 DEF StartFails
<1>13. ASSUME RunReturnsCode PROVE TypeOK'
  BY <1>13 DEF RunReturnsCode, Waited
<1>14. ASSUME RunReturnsError PROVE TypeOK'
  BY <1>14 DEF RunReturnsError, Waited
<1>15. ASSUME SendCode PROVE TypeOK'
  <2>1. [kind |-> "code", data |-> Int32(code)] \in Message
    BY DEF Message, Int32
  <2>2. wire' \in Seq(Message)
    BY <1>15, <2>1, AppendProperties DEF SendCode
  <2> QED
    BY <1>15, <2>2 DEF SendCode
<1>16. ASSUME SendCodeFails PROVE TypeOK'
  BY <1>16 DEF SendCodeFails
<1>17. ASSUME Break PROVE TypeOK'
  BY <1>17 DEF Break
<1>18. ASSUME RecvOutput PROVE TypeOK'
  <2> DEFINE o == Head(wire).kind
             d == Head(wire).data
  <2>1. Head(wire) \in Message /\ wire' \in Seq(Message)
    BY <1>18, HeadTailProperties DEF RecvOutput
  <2>2. o \in Outputs /\ d \in Seq(Nat)
    BY <1>18, <2>1, MessageData DEF RecvOutput
  <2>3. PICK k \in 0 .. Len(d) :
          /\ shown' = [shown EXCEPT ![o] = @ \o SubSeq(d, 1, k)]
          /\ failed' = IF k < Len(d) THEN failed \union {o} ELSE failed
    BY <1>18 DEF RecvOutput
  <2> HIDE DEF o, d
  <2>4. Len(d) \in Nat /\ 1 \in 1 .. Len(d) + 1 /\ k \in 1 - 1 .. Len(d)
    BY <2>2, <2>3, LenProperties
  <2>5. SubSeq(d, 1, k) \in Seq(Nat)
    BY <2>2, <2>4, SubSeqProperties
  <2>6. shown[o] \o SubSeq(d, 1, k) \in Seq(Nat)
    BY <2>2, <2>5, ConcatProperties
  <2>7. shown' \in [Outputs -> Seq(Nat)] /\ failed' \subseteq Outputs
    BY <2>2, <2>3, <2>6
  <2> QED
    BY <1>18, <2>1, <2>7 DEF RecvOutput
<1>19. ASSUME RecvCode PROVE TypeOK'
  <2>1. Head(wire) \in Message /\ wire' \in Seq(Message)
    BY <1>19, HeadTailProperties DEF RecvCode
  <2>2. exit' \in Int
    BY <1>19, <2>1, MessageData DEF RecvCode
  <2> QED
    BY <1>19, <2>1, <2>2 DEF RecvCode
<1>20. ASSUME RecvStatus PROVE TypeOK'
  BY <1>20 DEF RecvStatus
<1>21. ASSUME RecvFails PROVE TypeOK'
  BY <1>21 DEF RecvFails
<1>22. ASSUME UNCHANGED vars PROVE TypeOK'
  BY <1>22 DEF vars
<1> QED
  BY <1>1, <1>2, <1>3, <1>4, <1>5, <1>6, <1>7, <1>8, <1>9, <1>10, <1>11, <1>12, <1>13, <1>14, <1>15, <1>16, <1>17, <1>18, <1>19, <1>20, <1>21, <1>22 DEF Next, Copy, Handler, Client

-------------------------------------------------------------------------------
(* The copiers *)

\* A copier nothing happens to.
LEMMA CopierFrame ==
  ASSUME TypeOK, NEW q \in Outputs, CopierOK(q),
         wrote'[q] = wrote[q], read'[q] = read[q], chunk'[q] = chunk[q], copier'[q] = copier[q],
         copier[q] = "send" => mu' = mu,
         proc = "exited" => proc' = proc,
         child' => child \/ proc # "exited",
         stream = "broken" => stream' = stream
  PROVE  CopierOK(q)'
BY DEF CopierOK, Sent

\* A write comes before its copier is done.
LEMMA WriteKeeps ==
  ASSUME TypeOK, CopiersOK, NEW o \in Outputs, Write(o)
  PROVE  CopiersOK'
<1>1. /\ wrote' = [wrote EXCEPT ![o] = @ + 1] /\ wrote \in [Outputs -> Nat]
      /\ UNCHANGED <<proc, child, read, copier, chunk, mu, stream>>
  BY DEF Write, TypeOK, copyVars
<1>2. wrote'[o] = wrote[o] + 1 /\ wrote[o] \in Nat /\ read[o] \in Nat
  BY <1>1 DEF TypeOK
<1>3. CopierOK(o)
  BY DEF CopiersOK
<1>4. copier[o] # "done"
  BY <1>3 DEF Write, CopierOK
<1>5. CopierOK(o)'
  BY <1>1, <1>2, <1>3, <1>4 DEF CopierOK, Sent
<1>6. \A q \in Outputs : q # o => CopierOK(q)'
  BY <1>1, CopierFrame DEF CopiersOK
<1> QED
  BY <1>5, <1>6 DEF CopiersOK

\* A read takes the data that come next.
LEMMA ReadKeeps ==
  ASSUME TypeOK, CopiersOK, NEW o \in Outputs, ReadPipe(o)
  PROVE  CopiersOK' /\ Sent(o)' = Sent(o) /\ read[o] <= read'[o]
<1>1. PICK to \in read[o] + 1 .. wrote[o] :
        /\ chunk' = [chunk EXCEPT ![o] = Data(read[o] + 1, to)]
        /\ read' = [read EXCEPT ![o] = to]
  BY DEF ReadPipe
<1>2. /\ copier' = [copier EXCEPT ![o] = "lock"]
      /\ UNCHANGED <<proc, child, wrote, mu, stream>>
  BY DEF ReadPipe, Goto, procVars
<1>3. read[o] \in Nat /\ wrote[o] \in Nat /\ to \in Nat /\ read[o] < to /\ to <= wrote[o]
  BY <1>1 DEF TypeOK
<1>4. Len(Data(read[o] + 1, to)) = to - read[o]
  BY <1>3, DataSeq
<1>5. Data(read[o] + 1, to) # << >>
  BY <1>3, <1>4, EmptySeq
<1>6. chunk'[o] = Data(read[o] + 1, to) /\ read'[o] = to /\ copier'[o] = "lock"
  BY <1>1, <1>2 DEF TypeOK
<1>7. Sent(o)' = read[o]
  BY <1>3, <1>4, <1>6 DEF Sent
<1>8. CopierOK(o)'
  BY <1>2, <1>3, <1>5, <1>6, <1>7 DEF CopierOK
<1>9. \A q \in Outputs : q # o => CopierOK(q)'
  BY <1>1, <1>2, CopierFrame DEF CopiersOK, TypeOK
<1>10. Sent(o) = read[o]
  BY <1>3, EmptySeq DEF ReadPipe, CopiersOK, CopierOK, Sent
<1> QED
  BY <1>3, <1>6, <1>7, <1>8, <1>9, <1>10 DEF CopiersOK

\* A chunk that is sent is out of the copier's hand, and the mutex is free.
LEMMA EmitKeeps ==
  ASSUME TypeOK, CopiersOK, NEW o \in Outputs, EmitChunk(o)
  PROVE  CopiersOK' /\ Sent(o)' = read[o]
<1>1. /\ chunk' = [chunk EXCEPT ![o] = << >>] /\ copier' = [copier EXCEPT ![o] = "read"]
      /\ UNCHANGED <<proc, child, wrote, read, stream>>
  BY DEF EmitChunk, Goto, procVars
<1>2. chunk'[o] = << >> /\ copier'[o] = "read" /\ read'[o] = read[o] /\ read[o] \in Nat
  BY <1>1 DEF TypeOK
<1>3. Sent(o)' = read[o]
  BY <1>2, EmptySeq DEF Sent
<1>4. chunk'[o] = Data(Sent(o)' + 1, read'[o])
  BY <1>2, <1>3, DataEmpty
<1>5. CopierOK(o) /\ copier[o] = "send"
  BY DEF CopiersOK, EmitChunk
<1>6. CopierOK(o)'
  BY <1>1, <1>2, <1>3, <1>4, <1>5 DEF CopierOK
<1>7. \A q \in Outputs : q # o => CopierOK(q) /\ copier[q] # "send"
  BY <1>5 DEF CopiersOK, CopierOK
<1>8. \A q \in Outputs : q # o => CopierOK(q)'
  BY <1>1, <1>7, CopierFrame DEF TypeOK
<1> QED
  BY <1>3, <1>6, <1>8 DEF CopiersOK

\* Every step keeps what a copier has in hand, and the mutex with one of them.
LEMMA CopiersStep ==
  ASSUME TypeOK, CopiersOK, CallOK, [Next]_vars
  PROVE  CopiersOK'
<1> USE ExecAssumption
    DEF TypeOK, CopiersOK, CopierOK, Sent, Goto, procVars, copyVars, callVars, clientVars
<1>1. ASSUME NEW o \in Outputs, Write(o) PROVE CopiersOK'
  BY <1>1, WriteKeeps
<1>2. ASSUME Fork PROVE CopiersOK'
  BY <1>2 DEF Fork
<1>3. ASSUME NEW n \in Codes \union {Killed}, Exit(n) PROVE CopiersOK'
  BY <1>3 DEF Exit, Killed
<1>4. ASSUME ChildEnds PROVE CopiersOK'
  BY <1>4 DEF ChildEnds
<1>5. ASSUME Kill PROVE CopiersOK'
  BY <1>5 DEF Kill, Killed
<1>6. ASSUME NEW o \in Outputs, ReadPipe(o) PROVE CopiersOK'
  BY <1>6, ReadKeeps
<1>7. ASSUME NEW o \in Outputs, PipeEnds(o) PROVE CopiersOK'
  BY <1>7 DEF PipeEnds
<1>8. ASSUME NEW o \in Outputs, LockEmit(o) PROVE CopiersOK'
  BY <1>8 DEF LockEmit, MuFree, Outputs
<1>9. ASSUME NEW o \in Outputs, EmitChunk(o) PROVE CopiersOK'
  BY <1>9, EmitKeeps
<1>10. ASSUME NEW o \in Outputs, EmitFails(o) PROVE CopiersOK'
  BY <1>10 DEF EmitFails, MuUnlock
<1>11. ASSUME StartCommand PROVE CopiersOK'
  BY <1>11 DEF StartCommand, CallOK
<1>12. ASSUME StartFails PROVE CopiersOK'
  BY <1>12 DEF StartFails
<1>13. ASSUME RunReturnsCode PROVE CopiersOK'
  BY <1>13 DEF RunReturnsCode, Waited
<1>14. ASSUME RunReturnsError PROVE CopiersOK'
  BY <1>14 DEF RunReturnsError, Waited
<1>15. ASSUME SendCode PROVE CopiersOK'
  BY <1>15 DEF SendCode
<1>16. ASSUME SendCodeFails PROVE CopiersOK'
  BY <1>16 DEF SendCodeFails
<1>17. ASSUME Break PROVE CopiersOK'
  BY <1>17 DEF Break
<1>18. ASSUME RecvOutput PROVE CopiersOK'
  BY <1>18 DEF RecvOutput
<1>19. ASSUME RecvCode PROVE CopiersOK'
  BY <1>19 DEF RecvCode
<1>20. ASSUME RecvStatus PROVE CopiersOK'
  BY <1>20 DEF RecvStatus
<1>21. ASSUME RecvFails PROVE CopiersOK'
  BY <1>21 DEF RecvFails
<1>22. ASSUME UNCHANGED vars PROVE CopiersOK'
  BY <1>22 DEF vars
<1> QED
  BY <1>1, <1>2, <1>3, <1>4, <1>5, <1>6, <1>7, <1>8, <1>9, <1>10, <1>11, <1>12, <1>13, <1>14, <1>15, <1>16, <1>17, <1>18, <1>19, <1>20, <1>21, <1>22 DEF Next, Copy, Handler, Client

-------------------------------------------------------------------------------
(* The handler and the controller *)

\* The exit code goes out last.
LEMMA SendCodeKeeps ==
  ASSUME TypeOK, CallOK, SendCode
  PROVE  CallOK'
<1>1. /\ wire \in Seq(Message) /\ code \in Int
      /\ wire' = Append(wire, [kind |-> "code", data |-> Int32(code)])
      /\ UNCHANGED <<proc, code, copier, result>>
      /\ handler = "code" /\ handler' = "returned" /\ status' = "ok"
  BY DEF TypeOK, SendCode, procVars, copyVars, clientVars
<1>2. [kind |-> "code", data |-> Int32(code)] \in Message
  BY <1>1, ExecAssumption DEF Message, Int32
<1>3. /\ Len(wire') = Len(wire) + 1 /\ wire' # << >>
      /\ wire'[Len(wire) + 1] = [kind |-> "code", data |-> Int32(code)]
  BY <1>1, <1>2, AppendProperties
<1>4. CodeOnTheWay'
  BY <1>1, <1>3 DEF CodeOnTheWay
<1>5. result # "exit"
  BY <1>1 DEF CallOK
<1> QED
  BY <1>1, <1>4, <1>5 DEF CallOK

\* The exit code is the last to be received, too.
LEMMA RecvKeeps ==
  ASSUME TypeOK, CallOK, RecvOutput \/ RecvCode
  PROVE  CallOK'
<1>1. /\ wire \in Seq(Message) /\ wire # << >> /\ wire' = Tail(wire)
      /\ result = "none" /\ UNCHANGED <<proc, code, copier, handler, status, result>>
  BY DEF TypeOK, RecvOutput, RecvCode, procVars, copyVars, callVars
<1>2. /\ Len(wire) \in Nat /\ Len(wire) # 0 /\ Head(wire) = wire[1]
      /\ wire' \in Seq(Message) /\ Len(wire') = Len(wire) - 1
      /\ \A i \in 1 .. Len(wire') : wire'[i] = wire[i + 1]
  BY <1>1, HeadTailProperties, EmptySeq, LenProperties
<1>3. ASSUME status = "ok" PROVE CodeOnTheWay'
  <2>1. wire[Len(wire)].kind = "code" /\ wire[Len(wire)].data = Int32(code)
    BY <1>1, <1>3 DEF CallOK, CodeOnTheWay
  <2>2. CASE Len(wire) = 1
    <3>1. wire' = << >>
      BY <1>2, <2>2, EmptySeq
    <3>2. exit' = Int32(code)
      BY <1>2, <2>1, <2>2 DEF RecvOutput, RecvCode
    <3> QED
      BY <1>1, <3>1, <3>2 DEF CodeOnTheWay
  <2>3. CASE Len(wire) # 1
    <3>1. wire' # << >> /\ Len(wire') \in 1 .. Len(wire') /\ Len(wire') + 1 = Len(wire)
      BY <1>2, <2>3, EmptySeq
    <3>2. wire'[Len(wire')] = wire[Len(wire)]
      BY <1>2, <3>1
    <3> QED
      BY <1>1, <2>1, <3>1, <3>2 DEF CodeOnTheWay
  <2> QED
    BY <2>2, <2>3
<1> QED
  BY <1>1, <1>3 DEF CallOK

\* The status comes after every message, and after a copier that failed there is
\* no status: the stream was broken.
LEMMA StatusKeeps ==
  ASSUME TypeOK, CopiersOK, CallOK, RecvStatus
  PROVE  CallOK'
<1>1. /\ wire = << >> /\ stream = "open" /\ result' = (IF status = "ok" THEN "exit" ELSE "error")
      /\ UNCHANGED <<proc, code, copier, handler, status, wire, exit>>
  BY DEF RecvStatus, procVars, copyVars, callVars
<1>2. \A o \in Outputs : copier[o] # "failed"
  BY <1>1 DEF CopiersOK, CopierOK
<1> QED
  BY <1>1, <1>2 DEF CallOK, CodeOnTheWay

\* Every step keeps the exit code last, and reported only at the end.
LEMMA CallStep ==
  ASSUME TypeOK, CopiersOK, CallOK, [Next]_vars
  PROVE  CallOK'
<1> USE ExecAssumption
    DEF CallOK, CodeOnTheWay, Killed, Goto, procVars, copyVars, callVars, clientVars
<1>1. ASSUME NEW o \in Outputs, Write(o) PROVE CallOK'
  BY <1>1 DEF Write
<1>2. ASSUME Fork PROVE CallOK'
  BY <1>2 DEF Fork
<1>3. ASSUME NEW n \in Codes \union {Killed}, Exit(n) PROVE CallOK'
  BY <1>3 DEF Exit, Killed
<1>4. ASSUME ChildEnds PROVE CallOK'
  BY <1>4 DEF ChildEnds
<1>5. ASSUME Kill PROVE CallOK'
  BY <1>5 DEF Kill, Killed
<1>6. ASSUME NEW o \in Outputs, ReadPipe(o) PROVE CallOK'
  BY <1>6 DEF ReadPipe, TypeOK
<1>7. ASSUME NEW o \in Outputs, PipeEnds(o) PROVE CallOK'
  BY <1>7 DEF PipeEnds, TypeOK
<1>8. ASSUME NEW o \in Outputs, LockEmit(o) PROVE CallOK'
  BY <1>8 DEF LockEmit, MuFree, TypeOK
<1>9. ASSUME NEW o \in Outputs, EmitChunk(o) PROVE CallOK'
  BY <1>9 DEF EmitChunk, MuUnlock, Marked, TypeOK
<1>10. ASSUME NEW o \in Outputs, EmitFails(o) PROVE CallOK'
  BY <1>10 DEF EmitFails, MuUnlock, TypeOK
<1>11. ASSUME StartCommand PROVE CallOK'
  BY <1>11 DEF StartCommand
<1>12. ASSUME StartFails PROVE CallOK'
  BY <1>12 DEF StartFails
<1>13. ASSUME RunReturnsCode PROVE CallOK'
  BY <1>13 DEF RunReturnsCode, Waited
<1>14. ASSUME RunReturnsError PROVE CallOK'
  BY <1>14 DEF RunReturnsError, Waited
<1>15. ASSUME SendCode PROVE CallOK'
  BY <1>15, SendCodeKeeps
<1>16. ASSUME SendCodeFails PROVE CallOK'
  BY <1>16 DEF SendCodeFails
<1>17. ASSUME Break PROVE CallOK'
  BY <1>17 DEF Break
<1>18. ASSUME RecvOutput PROVE CallOK'
  BY <1>18, RecvKeeps
<1>19. ASSUME RecvCode PROVE CallOK'
  BY <1>19, RecvKeeps
<1>20. ASSUME RecvStatus PROVE CallOK'
  BY <1>20, StatusKeeps
<1>21. ASSUME RecvFails PROVE CallOK'
  BY <1>21 DEF RecvFails
<1>22. ASSUME UNCHANGED vars PROVE CallOK'
  BY <1>22 DEF vars
<1> QED
  BY <1>1, <1>2, <1>3, <1>4, <1>5, <1>6, <1>7, <1>8, <1>9, <1>10, <1>11, <1>12, <1>13, <1>14, <1>15, <1>16, <1>17, <1>18, <1>19, <1>20, <1>21, <1>22 DEF Next, Copy, Handler, Client

-------------------------------------------------------------------------------
(* The messages on the way *)

\* One cut more, for a message that is sent.
LEMMA CutExtended ==
  ASSUME NEW n \in Nat, NEW top \in Nat, NEW b \in 0 .. top, NEW cut \in Cuts(n, top)
  PROVE  \E next \in Cuts(n + 1, top) :
           (\A i \in 0 .. n : next[i] = cut[i]) /\ next[n + 1] = b
<1> DEFINE next == [i \in 0 .. n + 1 |-> IF i = n + 1 THEN b ELSE cut[i]]
<1>1. \A i \in 0 .. n : i \in 0 .. n + 1 /\ i # n + 1
  OBVIOUS
<1>2. \A i \in 0 .. n + 1 : i # n + 1 => i \in 0 .. n
  OBVIOUS
<1>3. next \in Cuts(n + 1, top)
  BY <1>2 DEF Cuts
<1>4. (\A i \in 0 .. n : next[i] = cut[i]) /\ next[n + 1] = b
  BY <1>1
<1> HIDE DEF next
<1> QED
  BY <1>3, <1>4

\* One cut less, for a message that is received.
LEMMA CutShortened ==
  ASSUME NEW n \in Nat \ {0}, NEW top \in Nat, NEW cut \in Cuts(n, top)
  PROVE  \E rest \in Cuts(n - 1, top) : \A i \in 0 .. n - 1 : rest[i] = cut[i + 1]
<1> DEFINE rest == [i \in 0 .. n - 1 |-> cut[i + 1]]
<1>1. \A i \in 0 .. n - 1 : i + 1 \in 0 .. n
  OBVIOUS
<1>2. rest \in Cuts(n - 1, top) /\ \A i \in 0 .. n - 1 : rest[i] = cut[i + 1]
  BY <1>1 DEF Cuts
<1> HIDE DEF rest
<1> QED
  BY <1>2

\* The last cut, wherever the messages are.
LEMMA TransitSent ==
  ASSUME TypeOK, NEW q \in Outputs, InTransit(q)
  PROVE  Sent(q) \in 0 .. read[q]
<1>1. PICK cut \in Cuts(Len(wire), read[q]) : Covers(cut, q)
  BY DEF InTransit
<1>2. Len(wire) \in Nat
  BY LenProperties DEF TypeOK
<1> QED
  BY <1>1, <1>2 DEF Covers, Cuts

\* No message comes or goes.
LEMMA TransitFrame ==
  ASSUME TypeOK, NEW q \in Outputs, InTransit(q),
         wire' = wire, shown'[q] = shown[q], failed' = failed, Sent(q)' = Sent(q),
         read'[q] \in Nat, read[q] <= read'[q]
  PROVE  InTransit(q)'
<1>1. PICK cut \in Cuts(Len(wire), read[q]) : Covers(cut, q)
  BY DEF InTransit
<1>2. read[q] \in Nat
  BY DEF TypeOK
<1>3. cut \in Cuts(Len(wire'), read'[q])
  BY <1>1, <1>2 DEF Cuts
<1>4. Covers(cut, q)'
  BY <1>1 DEF Covers, Received
<1> QED
  BY <1>3, <1>4 DEF InTransit

\* A message that continues what was sent.
LEMMA TransitAppend ==
  ASSUME TypeOK, NEW q \in Outputs, InTransit(q), NEW m \in Message, NEW b \in 0 .. read[q],
         wire' = Append(wire, m), shown'[q] = shown[q], failed' = failed,
         read'[q] = read[q], Sent(q)' = b,
         Carries(m, q, Sent(q), b)
  PROVE  InTransit(q)'
<1>1. PICK cut \in Cuts(Len(wire), read[q]) : Covers(cut, q)
  BY DEF InTransit
<1> DEFINE n == Len(wire)
<1>2. wire \in Seq(Message) /\ n \in Nat /\ read[q] \in Nat
  BY LenProperties DEF TypeOK
<1>3. /\ Len(wire') = n + 1 /\ wire'[n + 1] = m
      /\ \A i \in 1 .. n : wire'[i] = wire[i]
  BY <1>2, AppendProperties
<1>4. /\ Received(q, cut[0]) /\ cut[n] = Sent(q)
      /\ \A i \in 1 .. n : Carries(wire[i], q, cut[i - 1], cut[i])
  BY <1>1 DEF Covers
<1>0. cut \in Cuts(n, read[q])
  BY <1>1
<1> HIDE DEF n
<1>5. PICK next \in Cuts(n + 1, read[q]) :
        (\A i \in 0 .. n : next[i] = cut[i]) /\ next[n + 1] = b
  BY <1>0, <1>2, CutExtended
<1>6. \A i \in 1 .. n + 1 : Carries(wire'[i], q, next[i - 1], next[i])
  <2> TAKE i \in 1 .. n + 1
  <2>1. CASE i = n + 1
    <3>1. i - 1 = n /\ n \in 0 .. n
      BY <1>2, <2>1
    <3>2. next[i - 1] = Sent(q) /\ next[i] = b /\ wire'[i] = m
      BY <1>3, <1>4, <1>5, <2>1, <3>1
    <3> QED
      BY <3>2
  <2>2. CASE i # n + 1
    <3>1. i \in 1 .. n /\ i \in 0 .. n /\ i - 1 \in 0 .. n
      BY <1>2, <2>2
    <3>2. next[i - 1] = cut[i - 1] /\ next[i] = cut[i] /\ wire'[i] = wire[i]
      BY <1>3, <1>5, <3>1
    <3> QED
      BY <1>4, <3>1, <3>2
  <2> QED
    BY <2>1, <2>2
<1>7. Received(q, next[0])'
  <2>1. next[0] = cut[0]
    BY <1>2, <1>5
  <2> QED
    BY <1>4, <2>1 DEF Received
<1>8. Covers(next, q)'
  <2>1. next[Len(wire')] = Sent(q)'
    BY <1>3, <1>5
  <2>2. \A i \in 1 .. Len(wire') : Carries(wire'[i], q, next[i - 1], next[i])
    BY <1>3, <1>6
  <2> QED
    BY <1>7, <2>1, <2>2 DEF Covers, Carries
<1>9. next \in Cuts(Len(wire'), read'[q])
  BY <1>3, <1>5
<1> QED
  BY <1>8, <1>9 DEF InTransit

\* The first message goes: the others continue from what is received with it.
LEMMA TransitRecv ==
  ASSUME TypeOK, NEW q \in Outputs, InTransit(q),
         wire # << >>, wire' = Tail(wire), UNCHANGED <<read, chunk>>
  PROVE  \E a, b \in 0 .. read[q] :
           /\ Received(q, a)
           /\ Carries(Head(wire), q, a, b)
           /\ Received(q, b)' => InTransit(q)'
<1>1. PICK cut \in Cuts(Len(wire), read[q]) : Covers(cut, q)
  BY DEF InTransit
<1> DEFINE n == Len(wire)
           a == cut[0]
           b == cut[1]
<1>2. wire \in Seq(Message) /\ read[q] \in Nat
  BY DEF TypeOK
<1>3. /\ n \in Nat /\ n # 0 /\ Head(wire) = wire[1]
      /\ Len(wire') = n - 1
      /\ \A i \in 1 .. n - 1 : wire'[i] = wire[i + 1]
  BY <1>2, HeadTailProperties, EmptySeq, LenProperties
<1>4. /\ Received(q, cut[0]) /\ cut[n] = Sent(q)
      /\ \A i \in 1 .. n : Carries(wire[i], q, cut[i - 1], cut[i])
  BY <1>1 DEF Covers
<1>0. cut \in Cuts(n, read[q])
  BY <1>1
<1> HIDE DEF n
<1>5. a \in 0 .. read[q] /\ b \in 0 .. read[q]
  <2>1. 0 \in 0 .. n /\ 1 \in 0 .. n
    BY <1>3
  <2>2. \A i \in 0 .. n : cut[i] \in 0 .. read[q]
    BY <1>0 DEF Cuts
  <2> QED
    BY <2>1, <2>2
<1>6. Carries(wire[1], q, a, b)
  <2>1. 1 \in 1 .. n /\ 1 - 1 = 0
    BY <1>3
  <2> QED
    BY <1>4, <2>1
<1> HIDE DEF a, b
<1>9. PICK rest \in Cuts(n - 1, read[q]) : \A i \in 0 .. n - 1 : rest[i] = cut[i + 1]
  BY <1>0, <1>2, <1>3, CutShortened
<1>10. rest[0] = b
  BY <1>3, <1>9 DEF b
<1>11. rest[n - 1] = Sent(q)'
  <2>1. n - 1 \in 0 .. n - 1 /\ n - 1 + 1 = n
    BY <1>3
  <2>2. Sent(q)' = Sent(q)
    BY DEF Sent
  <2> QED
    BY <1>4, <1>9, <2>1, <2>2
<1>12. \A i \in 1 .. n - 1 : Carries(wire'[i], q, rest[i - 1], rest[i])
  <2> TAKE i \in 1 .. n - 1
  <2>1. /\ i + 1 \in 1 .. n /\ i \in 0 .. n - 1 /\ i - 1 \in 0 .. n - 1
        /\ (i + 1) - 1 = i /\ (i - 1) + 1 = i
    BY <1>3
  <2>2. Carries(wire[i + 1], q, cut[i], cut[i + 1])
    BY <1>4, <2>1
  <2>3. rest[i - 1] = cut[i] /\ rest[i] = cut[i + 1] /\ wire'[i] = wire[i + 1]
    BY <1>3, <1>9, <2>1
  <2> QED
    BY <2>2, <2>3
<1>13. ASSUME Received(q, b)' PROVE Covers(rest, q)'
  <2>1. rest[Len(wire')] = Sent(q)'
    BY <1>3, <1>11
  <2>2. \A i \in 1 .. Len(wire') : Carries(wire'[i], q, rest[i - 1], rest[i])
    BY <1>3, <1>12
  <2>3. Received(q, rest[0])'
    BY <1>10, <1>13 DEF Received
  <2> QED
    BY <2>1, <2>2, <2>3 DEF Covers, Carries
<1>14. rest \in Cuts(Len(wire'), read'[q])
  BY <1>3, <1>9
<1>15. Received(q, b)' => InTransit(q)'
  BY <1>13, <1>14 DEF InTransit
<1>16. Received(q, a)
  BY <1>4 DEF a
<1> QED
  BY <1>3, <1>5, <1>6, <1>15, <1>16

\* Output that is received appears behind what is shown, without a gap unless a
\* write to the terminal fails.
LEMMA ChunkShown ==
  ASSUME TypeOK, TransitOK, RecvOutput
  PROVE  \E o \in Outputs : \E a, b, k \in Nat :
           /\ o = Head(wire).kind /\ a < b /\ b <= read[o] /\ k <= b - a
           /\ Received(o, a) /\ InTransit(o)'
           /\ shown' = [shown EXCEPT ![o] = @ \o Data(a + 1, a + k)]
           /\ failed' = IF k < b - a THEN failed \union {o} ELSE failed
           /\ \A i, j \in 1 .. Len(shown'[o]) : i < j => shown'[o][i] < shown'[o][j]
           /\ o \notin failed' => shown'[o] = Data(1, b)
<1> DEFINE d == Head(wire).data
<1>1. /\ wire # << >> /\ Head(wire).kind # "code" /\ wire' = Tail(wire)
      /\ UNCHANGED <<read, chunk>>
      /\ shown \in [Outputs -> Seq(Nat)] /\ read \in [Outputs -> Nat]
  BY DEF RecvOutput, copyVars, TypeOK
<1>2. Head(wire) \in Message
  BY <1>1, HeadTailProperties DEF TypeOK
<1>3. PICK o \in Outputs : o = Head(wire).kind
  BY <1>1, <1>2, MessageData
<1>4. PICK k \in 0 .. Len(d) :
        /\ shown' = [shown EXCEPT ![o] = @ \o SubSeq(d, 1, k)]
        /\ failed' = IF k < Len(d) THEN failed \union {o} ELSE failed
  BY <1>3 DEF RecvOutput
<1>5. PICK a, b \in 0 .. read[o] :
        Received(o, a) /\ Carries(Head(wire), o, a, b) /\ (Received(o, b)' => InTransit(o)')
  BY <1>1, <1>3, TransitRecv DEF TransitOK
<1>6. a < b /\ d = Data(a + 1, b)
  BY <1>3, <1>5 DEF Carries
<1> HIDE DEF d
<1>7. a \in Nat /\ b \in Nat /\ b <= read[o] /\ a <= b /\ shown[o] \in Seq(Nat)
  BY <1>1, <1>3, <1>5, <1>6
<1>8. Len(d) = b - a
  BY <1>6, <1>7, DataSeq
<1>9. k \in Nat /\ k \in 0 .. b - a /\ k <= b - a
  BY <1>4, <1>7, <1>8
<1>10. SubSeq(d, 1, k) = Data(a + 1, a + k)
  BY <1>6, <1>7, <1>9, DataPrefix
<1>11. /\ shown' = [shown EXCEPT ![o] = @ \o Data(a + 1, a + k)]
       /\ failed' = IF k < b - a THEN failed \union {o} ELSE failed
  BY <1>4, <1>8, <1>10
<1>12. shown'[o] = shown[o] \o Data(a + 1, a + k)
  BY <1>1, <1>3, <1>11
<1>13. /\ \A i, j \in 1 .. Len(shown[o]) : i < j => shown[o][i] < shown[o][j]
       /\ \A i \in 1 .. Len(shown[o]) : shown[o][i] <= a
  BY <1>3, <1>5 DEF TransitOK, PrintedInOrder, Received
<1> DEFINE t == shown[o] \o Data(a + 1, a + k)
<1>14. /\ t \in Seq(Nat) /\ Len(t) = Len(shown[o]) + k
       /\ \A i, j \in 1 .. Len(t) : i < j => t[i] < t[j]
       /\ \A i \in 1 .. Len(t) : t[i] <= a + k
  BY <1>7, <1>9, <1>13, ShownMore
<1> HIDE DEF t
<1>15. ASSUME o \notin failed' PROVE shown'[o] = Data(1, b) /\ Len(shown'[o]) = b
  <2>1. o \notin failed /\ k = b - a /\ a + k = b
    BY <1>7, <1>9, <1>11, <1>15
  <2>2. shown[o] = Data(1, a)
    BY <1>3, <1>5, <2>1 DEF TransitOK, PrintedInOrder, Received
  <2>3. Data(1, a) \o Data(a + 1, b) = Data(1, b) /\ Len(Data(1, b)) = b
    BY <1>7, DataJoin, DataFirst
  <2> QED
    BY <1>12, <2>1, <2>2, <2>3
<1>16. \A i \in 1 .. Len(t) : t[i] <= b
  <2> TAKE i \in 1 .. Len(t)
  <2>1. t[i] \in Nat /\ t[i] <= a + k
    BY <1>14, LenProperties
  <2> QED
    BY <1>7, <1>9, <2>1
<1>17. shown'[o] = t
  BY <1>12 DEF t
<1>18. Received(o, b)'
  BY <1>15, <1>16, <1>17 DEF Received
<1>19. \A i, j \in 1 .. Len(shown'[o]) : i < j => shown'[o][i] < shown'[o][j]
  BY <1>14, <1>17
<1> QED
  BY <1>3, <1>5, <1>6, <1>7, <1>9, <1>11, <1>15, <1>18, <1>19

\* A step that neither sends nor receives, nor takes more from a pipe.
LEMMA TransitSame ==
  ASSUME TypeOK, TransitOK, UNCHANGED <<wire, shown, failed, read, chunk>>
  PROVE  TransitOK'
<1>1. PrintedInOrder'
  BY DEF TransitOK, PrintedInOrder
<1>2. \A q \in Outputs : InTransit(q)'
  <2> TAKE q \in Outputs
  <2>1. InTransit(q) /\ Sent(q)' = Sent(q) /\ read'[q] \in Nat /\ read[q] <= read'[q]
    BY DEF TransitOK, Sent, TypeOK
  <2> QED
    BY <2>1, TransitFrame
<1> QED
  BY <1>1, <1>2 DEF TransitOK

\* A copier that reads has more in hand; what it sent is what it was.
LEMMA ReadTransit ==
  ASSUME TypeOK, TypeOK', CopiersOK, TransitOK, NEW o \in Outputs, ReadPipe(o)
  PROVE  TransitOK'
<1>1. /\ UNCHANGED <<wire, shown, failed>>
      /\ \E to \in read[o] + 1 .. wrote[o] :
           /\ chunk' = [chunk EXCEPT ![o] = Data(read[o] + 1, to)]
           /\ read' = [read EXCEPT ![o] = to]
  BY DEF ReadPipe, clientVars
<1>2. PrintedInOrder'
  BY <1>1 DEF TransitOK, PrintedInOrder
<1>3. \A q \in Outputs : InTransit(q)'
  <2> TAKE q \in Outputs
  <2>1. InTransit(q) /\ read[q] \in Nat /\ read'[q] \in Nat
    BY DEF TransitOK, TypeOK
  <2>2. Sent(q)' = Sent(q) /\ read[q] <= read'[q]
    <3>1. CASE q = o
      BY <3>1, ReadKeeps
    <3>2. CASE q # o
      <4>1. read'[q] = read[q] /\ chunk'[q] = chunk[q]
        BY <1>1, <3>2 DEF TypeOK
      <4> QED
        BY <2>1, <4>1 DEF Sent
    <3> QED
      BY <3>1, <3>2
  <2> QED
    BY <1>1, <2>1, <2>2, TransitFrame
<1> QED
  BY <1>2, <1>3 DEF TransitOK

\* A chunk goes behind the messages on the way.
LEMMA EmitTransit ==
  ASSUME TypeOK, CopiersOK, TransitOK, NEW o \in Outputs, EmitChunk(o)
  PROVE  TransitOK'
<1> DEFINE m == [kind |-> o, data |-> chunk[o]]
<1>1. /\ wire' = Append(wire, m) /\ chunk' = [chunk EXCEPT ![o] = << >>]
      /\ UNCHANGED <<read, shown, failed>> /\ copier[o] = "send"
  BY DEF EmitChunk, Marked, clientVars
<1>2. m \in Message /\ m.kind = o /\ m.data = chunk[o]
  BY DEF Message, TypeOK
<1> HIDE DEF m
<1>3. PrintedInOrder'
  BY <1>1 DEF TransitOK, PrintedInOrder
<1>4. \A q \in Outputs : InTransit(q)'
  <2> TAKE q \in Outputs
  <2>1. /\ InTransit(q) /\ read[q] \in Nat /\ read'[q] = read[q] /\ shown'[q] = shown[q]
        /\ chunk[q] \in Seq(Nat)
    BY <1>1 DEF TransitOK, TypeOK
  <2>2. CASE q = o
    <3>1. chunk[o] = Data(Sent(o) + 1, read[o]) /\ chunk[o] # << >>
      BY <1>1 DEF CopiersOK, CopierOK
    <3>2. Len(chunk[o]) \in Nat /\ Len(chunk[o]) # 0
      BY <2>1, <2>2, <3>1, EmptySeq, LenProperties
    <3>3. Sent(o) < read[o]
      BY <2>1, <2>2, <3>2 DEF Sent
    <3>4. Carries(m, o, Sent(o), read[o])
      BY <1>2, <3>1, <3>3 DEF Carries
    <3>5. Sent(o)' = read[o] /\ read[o] \in 0 .. read[o]
      BY <2>1, <2>2, EmitKeeps
    <3> QED
      BY <1>1, <1>2, <2>1, <2>2, <3>4, <3>5, TransitAppend
  <2>3. CASE q # o
    <3>1. Sent(q)' = Sent(q)
      BY <1>1, <2>3 DEF Sent, TypeOK
    <3>2. Carries(m, q, Sent(q), Sent(q))
      BY <1>2, <2>3 DEF Carries
    <3>3. Sent(q) \in 0 .. read[q]
      BY <2>1, TransitSent
    <3> QED
      BY <1>1, <1>2, <2>1, <3>1, <3>2, <3>3, TransitAppend
  <2> QED
    BY <2>2, <2>3
<1> QED
  BY <1>3, <1>4 DEF TransitOK

\* The exit code carries no output.
LEMMA SendCodeTransit ==
  ASSUME TypeOK, TransitOK, SendCode
  PROVE  TransitOK'
<1> DEFINE m == [kind |-> "code", data |-> Int32(code)]
<1>1. wire' = Append(wire, m) /\ UNCHANGED <<read, chunk, shown, failed>>
  BY DEF SendCode, copyVars, clientVars
<1>2. m \in Message /\ m.kind = "code"
  BY ExecAssumption DEF Message, TypeOK, Int32
<1> HIDE DEF m
<1>3. PrintedInOrder'
  BY <1>1 DEF TransitOK, PrintedInOrder
<1>4. \A q \in Outputs : InTransit(q)'
  <2> TAKE q \in Outputs
  <2>1. InTransit(q) /\ read'[q] = read[q] /\ shown'[q] = shown[q] /\ Sent(q)' = Sent(q)
    BY <1>1 DEF TransitOK, Sent
  <2>2. Carries(m, q, Sent(q), Sent(q))
    BY <1>2 DEF Carries, Outputs
  <2>3. Sent(q) \in 0 .. read[q]
    BY <2>1, TransitSent
  <2> QED
    BY <1>1, <1>2, <2>1, <2>2, <2>3, TransitAppend
<1> QED
  BY <1>3, <1>4 DEF TransitOK

\* An output the first message does not belong to.
LEMMA OtherTransit ==
  ASSUME TypeOK, TransitOK, NEW q \in Outputs, Head(wire).kind # q,
         wire # << >>, wire' = Tail(wire), UNCHANGED <<read, chunk>>,
         shown'[q] = shown[q], q \in failed' <=> q \in failed
  PROVE  InTransit(q)'
<1>1. PICK a, b \in 0 .. read[q] :
        Received(q, a) /\ Carries(Head(wire), q, a, b) /\ (Received(q, b)' => InTransit(q)')
  BY TransitRecv DEF TransitOK
<1>2. a = b
  BY <1>1 DEF Carries
<1>3. Received(q, b)'
  BY <1>1, <1>2 DEF Received
<1> QED
  BY <1>1, <1>3

\* The exit code shows nothing.
LEMMA RecvCodeTransit ==
  ASSUME TypeOK, TransitOK, RecvCode
  PROVE  TransitOK'
<1>1. /\ wire # << >> /\ wire' = Tail(wire) /\ Head(wire).kind = "code"
      /\ UNCHANGED <<read, chunk, shown, failed>>
  BY DEF RecvCode, copyVars
<1>2. PrintedInOrder'
  BY <1>1 DEF TransitOK, PrintedInOrder
<1>3. \A q \in Outputs : InTransit(q)'
  <2> TAKE q \in Outputs
  <2>1. Head(wire).kind # q
    BY <1>1 DEF Outputs
  <2> QED
    BY <1>1, <2>1, OtherTransit
<1> QED
  BY <1>2, <1>3 DEF TransitOK

\* What is received is shown, in its place.
LEMMA RecvTransit ==
  ASSUME TypeOK, TransitOK, RecvOutput
  PROVE  TransitOK'
<1>1. wire # << >> /\ wire' = Tail(wire) /\ UNCHANGED <<read, chunk>>
  BY DEF RecvOutput, copyVars
<1>2. PICK o \in Outputs : \E a, b, k \in Nat :
        /\ o = Head(wire).kind
        /\ InTransit(o)'
        /\ shown' = [shown EXCEPT ![o] = @ \o Data(a + 1, a + k)]
        /\ failed' = IF k < b - a THEN failed \union {o} ELSE failed
        /\ \A i, j \in 1 .. Len(shown'[o]) : i < j => shown'[o][i] < shown'[o][j]
        /\ o \notin failed' => shown'[o] = Data(1, b)
  BY ChunkShown
<1>3. shown \in [Outputs -> Seq(Nat)]
  BY DEF TypeOK
<1>4. \A q \in Outputs : q # o => shown'[q] = shown[q] /\ (q \in failed' <=> q \in failed)
  BY <1>2, <1>3
<1>5. \A q \in Outputs : InTransit(q)'
  <2> TAKE q \in Outputs
  <2>1. CASE q = o
    BY <1>2, <2>1
  <2>2. CASE q # o
    BY <1>1, <1>4, <1>2, <2>2, OtherTransit
  <2> QED
    BY <2>1, <2>2
<1>6. o \notin failed' => shown'[o] = Data(1, Len(shown'[o]))
  BY <1>2, DataFirst
<1>7. PrintedInOrder'
  <2> SUFFICES ASSUME NEW q \in Outputs
               PROVE  /\ \A i, j \in 1 .. Len(shown'[q]) : i < j => shown'[q][i] < shown'[q][j]
                      /\ q \notin failed' => shown'[q] = Data(1, Len(shown'[q]))
    BY DEF PrintedInOrder
  <2>1. CASE q = o
    BY <1>2, <1>6, <2>1
  <2>2. CASE q # o
    BY <1>4, <2>2 DEF TransitOK, PrintedInOrder
  <2> QED
    BY <2>1, <2>2
<1> QED
  BY <1>5, <1>7 DEF TransitOK

\* Every step keeps the messages on the way the continuation of what is shown.
LEMMA TransitStep ==
  ASSUME TypeOK, TypeOK', CopiersOK, TransitOK, [Next]_vars
  PROVE  TransitOK'
<1> USE ExecAssumption
    DEF Goto, procVars, copyVars, callVars, clientVars
<1>1. ASSUME NEW o \in Outputs, Write(o) PROVE TransitOK'
  <2>1. UNCHANGED <<wire, shown, failed, read, chunk>>
    BY <1>1 DEF Write
  <2> QED
    BY <2>1, TransitSame
<1>2. ASSUME Fork PROVE TransitOK'
  <2>1. UNCHANGED <<wire, shown, failed, read, chunk>>
    BY <1>2 DEF Fork
  <2> QED
    BY <2>1, TransitSame
<1>3. ASSUME NEW n \in Codes \union {Killed}, Exit(n) PROVE TransitOK'
  <2>1. UNCHANGED <<wire, shown, failed, read, chunk>>
    BY <1>3 DEF Exit, Killed
  <2> QED
    BY <2>1, TransitSame
<1>4. ASSUME ChildEnds PROVE TransitOK'
  <2>1. UNCHANGED <<wire, shown, failed, read, chunk>>
    BY <1>4 DEF ChildEnds
  <2> QED
    BY <2>1, TransitSame
<1>5. ASSUME Kill PROVE TransitOK'
  <2>1. UNCHANGED <<wire, shown, failed, read, chunk>>
    BY <1>5 DEF Kill, Killed
  <2> QED
    BY <2>1, TransitSame
<1>6. ASSUME NEW o \in Outputs, ReadPipe(o) PROVE TransitOK'
  BY <1>6, ReadTransit
<1>7. ASSUME NEW o \in Outputs, PipeEnds(o) PROVE TransitOK'
  <2>1. UNCHANGED <<wire, shown, failed, read, chunk>>
    BY <1>7 DEF PipeEnds
  <2> QED
    BY <2>1, TransitSame
<1>8. ASSUME NEW o \in Outputs, LockEmit(o) PROVE TransitOK'
  <2>1. UNCHANGED <<wire, shown, failed, read, chunk>>
    BY <1>8 DEF LockEmit, MuFree
  <2> QED
    BY <2>1, TransitSame
<1>9. ASSUME NEW o \in Outputs, EmitChunk(o) PROVE TransitOK'
  BY <1>9, EmitTransit
<1>10. ASSUME NEW o \in Outputs, EmitFails(o) PROVE TransitOK'
  <2>1. UNCHANGED <<wire, shown, failed, read, chunk>>
    BY <1>10 DEF EmitFails, MuUnlock
  <2> QED
    BY <2>1, TransitSame
<1>11. ASSUME StartCommand PROVE TransitOK'
  <2>1. UNCHANGED <<wire, shown, failed, read, chunk>>
    BY <1>11 DEF StartCommand
  <2> QED
    BY <2>1, TransitSame
<1>12. ASSUME StartFails PROVE TransitOK'
  <2>1. UNCHANGED <<wire, shown, failed, read, chunk>>
    BY <1>12 DEF StartFails
  <2> QED
    BY <2>1, TransitSame
<1>13. ASSUME RunReturnsCode PROVE TransitOK'
  <2>1. UNCHANGED <<wire, shown, failed, read, chunk>>
    BY <1>13 DEF RunReturnsCode, Waited
  <2> QED
    BY <2>1, TransitSame
<1>14. ASSUME RunReturnsError PROVE TransitOK'
  <2>1. UNCHANGED <<wire, shown, failed, read, chunk>>
    BY <1>14 DEF RunReturnsError, Waited
  <2> QED
    BY <2>1, TransitSame
<1>15. ASSUME SendCode PROVE TransitOK'
  BY <1>15, SendCodeTransit
<1>16. ASSUME SendCodeFails PROVE TransitOK'
  <2>1. UNCHANGED <<wire, shown, failed, read, chunk>>
    BY <1>16 DEF SendCodeFails
  <2> QED
    BY <2>1, TransitSame
<1>17. ASSUME Break PROVE TransitOK'
  <2>1. UNCHANGED <<wire, shown, failed, read, chunk>>
    BY <1>17 DEF Break
  <2> QED
    BY <2>1, TransitSame
<1>18. ASSUME RecvOutput PROVE TransitOK'
  BY <1>18, RecvTransit
<1>19. ASSUME RecvCode PROVE TransitOK'
  BY <1>19, RecvCodeTransit
<1>20. ASSUME RecvStatus PROVE TransitOK'
  <2>1. UNCHANGED <<wire, shown, failed, read, chunk>>
    BY <1>20 DEF RecvStatus
  <2> QED
    BY <2>1, TransitSame
<1>21. ASSUME RecvFails PROVE TransitOK'
  <2>1. UNCHANGED <<wire, shown, failed, read, chunk>>
    BY <1>21 DEF RecvFails
  <2> QED
    BY <2>1, TransitSame
<1>22. ASSUME UNCHANGED vars PROVE TransitOK'
  <2>1. UNCHANGED <<wire, shown, failed, read, chunk>>
    BY <1>22 DEF vars
  <2> QED
    BY <2>1, TransitSame
<1> QED
  BY <1>1, <1>2, <1>3, <1>4, <1>5, <1>6, <1>7, <1>8, <1>9, <1>10, <1>11, <1>12, <1>13, <1>14, <1>15, <1>16, <1>17, <1>18, <1>19, <1>20, <1>21, <1>22 DEF Next, Copy, Handler, Client

-------------------------------------------------------------------------------
(* The inductive invariant *)

\* Nothing is written, in hand, on the way or shown.
LEMMA ExecInit ==
  ASSUME Init
  PROVE  ExecInv
<1>1. << >> \in Seq(Message) /\ << >> \in Seq(Nat) /\ Len(<< >>) = 0
  BY EmptySeq
<1>2. TypeOK
  <2>1. wire \in Seq(Message) /\ chunk \in [Outputs -> Seq(Nat)] /\ shown \in [Outputs -> Seq(Nat)]
    BY <1>1 DEF Init
  <2>2. copier \in [Outputs -> Steps] /\ wrote \in [Outputs -> Nat] /\ read \in [Outputs -> Nat]
    BY DEF Init, Steps
  <2>3. code \in Int /\ exit \in Int /\ failed \subseteq Outputs
    BY DEF Init
  <2> QED
    BY <2>1, <2>2, <2>3, Zenon DEF Init, TypeOK
<1>3. \A o \in Outputs : Sent(o) = 0 /\ read[o] = 0 /\ chunk[o] = << >> /\ shown[o] = << >> /\ o \notin failed
  BY <1>1 DEF Init, Sent
<1>4. Data(1, 0) = << >>
  <2>1. Data(0 + 1, 0) = << >>
    BY DataEmpty
  <2> QED
    BY <2>1
<1>5. CopiersOK
  <2> SUFFICES ASSUME NEW o \in Outputs PROVE CopierOK(o)
    BY DEF CopiersOK
  <2>1. Sent(o) + 1 = 1
    BY <1>3
  <2>2. chunk[o] = Data(Sent(o) + 1, read[o])
    BY <1>3, <1>4, <2>1
  <2> QED
    BY <1>3, <2>2 DEF Init, CopierOK
<1>6. PrintedInOrder
  BY <1>1, <1>3, <1>4 DEF PrintedInOrder
<1>7. \A o \in Outputs : InTransit(o)
  <2> TAKE o \in Outputs
  <2> DEFINE none == [i \in 0 .. 0 |-> 0]
  <2>1. wire = << >> /\ Len(wire) = 0 /\ read[o] = 0 /\ Sent(o) = 0 /\ Len(shown[o]) = 0
    BY <1>1, <1>3 DEF Init
  <2>2. none \in Cuts(Len(wire), read[o]) /\ none[0] = 0
    BY <2>1 DEF Cuts
  <2>3. Covers(none, o)
    BY <2>1, <2>2 DEF Covers, Received
  <2> QED
    BY <2>2, <2>3 DEF InTransit
<1>8. CallOK
  BY ExecAssumption DEF Init, CallOK
<1> QED
  BY <1>2, <1>5, <1>6, <1>7, <1>8 DEF ExecInv, TransitOK

\* Every step keeps every part of the invariant.
LEMMA ExecStep ==
  ASSUME ExecInv, [Next]_vars
  PROVE  ExecInv'
<1>1. TypeOK /\ CopiersOK /\ TransitOK /\ CallOK
  BY DEF ExecInv
<1>2. TypeOK'
  BY <1>1, TypeStep
<1>3. CopiersOK' /\ CallOK' /\ TransitOK'
  BY <1>1, <1>2, CopiersStep, CallStep, TransitStep
<1> QED
  BY <1>2, <1>3 DEF ExecInv

\* The inductive invariant of a call: what the copiers have in hand, what is on
\* the way and what is shown are one output in order, one copier sends at a time,
\* and the exit code is the last message.
THEOREM ExecInvariant == Spec => []ExecInv
<1>1. Init => ExecInv
  BY ExecInit
<1>2. ExecInv /\ [Next]_vars => ExecInv'
  BY ExecStep
<1> QED
  BY <1>1, <1>2, PTL DEF Spec

-------------------------------------------------------------------------------
(* What a call guarantees *)

\* Every variable holds a value of its kind.
THEOREM TypeCorrect == Spec => []TypeOK
<1>1. ExecInv => TypeOK
  BY DEF ExecInv
<1> QED
  BY <1>1, ExecInvariant, PTL

\* The copiers and the handler are never in Send of the one stream together: of
\* the copiers by the mutex of safeEmit, and the handler sends after both.
THEOREM OneSenderHolds == Spec => []OneSender
<1>1. ASSUME ExecInv PROVE OneSender
  <2>1. \A o \in Outputs : copier[o] = "send" => mu = o
    BY <1>1 DEF ExecInv, CopiersOK, CopierOK
  <2>2. handler = "code" => \A o \in Outputs : copier[o] # "send"
    BY <1>1 DEF ExecInv, CallOK
  <2> QED
    BY <2>1, <2>2 DEF OneSender, Sending
<1>2. ExecInv => OneSender
  BY <1>1
<1> QED
  BY <1>2, ExecInvariant, PTL

\* What is on the terminal of an output stands in the order in which the command
\* wrote it, and without a gap unless a write to the terminal failed, whatever the
\* reads, the chunks and the order of the two outputs.
THEOREM PrintedInOrderHolds == Spec => []PrintedInOrder
<1>1. ExecInv => PrintedInOrder
  BY DEF ExecInv, TransitOK
<1> QED
  BY <1>1, ExecInvariant, PTL

\* With the wire empty, all that was sent is shown, but for what the terminal
\* refused.
LEMMA AllShown ==
  ASSUME TypeOK, TransitOK, wire = << >>, NEW o \in Outputs, o \notin failed
  PROVE  shown[o] = Data(1, Sent(o))
<1>1. PICK cut \in Cuts(Len(wire), read[o]) : Covers(cut, o)
  BY DEF TransitOK, InTransit
<1>2. Len(wire) = 0
  BY EmptySeq
<1>3. Len(shown[o]) = Sent(o)
  BY <1>1, <1>2 DEF Covers, Received
<1> QED
  BY <1>3 DEF TransitOK, PrintedInOrder

\* A copier that is done has sent all there is.
LEMMA DoneSentAll ==
  ASSUME TypeOK, CopiersOK, NEW o \in Outputs, copier[o] = "done"
  PROVE  Sent(o) = wrote[o] /\ proc = "exited" /\ ~ child
<1>1. chunk[o] = << >> /\ read[o] = wrote[o] /\ proc = "exited" /\ ~ child
  BY DEF CopiersOK, CopierOK
<1>2. Len(chunk[o]) = 0 /\ wrote[o] \in Nat
  BY <1>1, EmptySeq DEF TypeOK
<1> QED
  BY <1>1, <1>2 DEF Sent

\* What the conversion to an int32 keeps of a code: whether it is zero, and all of
\* it when there is room.
LEMMA Int32Keeps ==
  ASSUME code \in -1 .. 2 * Half - 1
  PROVE  /\ Int32(code) \in Int
         /\ Int32(code) = 0 <=> code = 0
         /\ code < Half => Int32(code) = code
BY ExecAssumption DEF Int32

\* A controller that reports an exit code reports success only of a command that
\* succeeded, the very code if an int32 holds it, and has printed everything that
\* was written and that its terminal took.
THEOREM ReportIsTrueHolds == Spec => []ReportIsTrue
<1>1. ASSUME ExecInv, result = "exit"
      PROVE  /\ proc = "exited"
             /\ exit = 0 <=> code = 0
             /\ code < Half => exit = code
             /\ \A o \in Outputs : o \notin failed => shown[o] = Data(1, wrote[o])
  <2>1. TypeOK /\ CopiersOK /\ TransitOK
    BY <1>1 DEF ExecInv
  <2>2. wire = << >> /\ status = "ok" /\ \A o \in Outputs : copier[o] = "done"
    BY <1>1 DEF ExecInv, CallOK
  <2>3. proc = "exited" /\ exit = Int32(code) /\ code \in -1 .. 2 * Half - 1
    BY <1>1, <2>2 DEF ExecInv, CallOK, CodeOnTheWay
  <2>4. \A o \in Outputs :
          (o \notin failed => shown[o] = Data(1, Sent(o))) /\ Sent(o) = wrote[o]
    BY <2>1, <2>2, AllShown, DoneSentAll
  <2>5. (exit = 0 <=> code = 0) /\ (code < Half => exit = code)
    BY <2>3, Int32Keeps
  <2> QED
    BY <2>3, <2>4, <2>5
<1>2. ExecInv => ReportIsTrue
  BY <1>1 DEF ReportIsTrue
<1> QED
  BY <1>2, ExecInvariant, PTL

-------------------------------------------------------------------------------
(* A call implements CommandOutput *)

\* The two ways to write the first n writes.
LEMMA FirstIsData ==
  ASSUME NEW n \in Nat
  PROVE  CO!First(n) = Data(1, n)
<1>1. n - 1 + 1 = n /\ \A k \in 1 .. n : 1 + k - 1 = k
  OBVIOUS
<1> QED
  BY <1>1 DEF CO!First, Data

\* What CommandOutput cannot see.
LEMMA Unseen ==
  ASSUME UNCHANGED <<proc, code, child, wrote, shown, failed, exit, result>>
  PROVE  UNCHANGED CO!vars
BY DEF CO!vars

\* The command exits, by itself or killed.
LEMMA ExitMapped ==
  ASSUME proc = "running", proc' = "exited", code' \in Int,
         UNCHANGED <<child, wrote, shown, failed, exit, result>>
  PROVE  CO!Exit
BY DEF CO!Exit

\* Output that is received shows what comes next, or with gaps once the terminal
\* has failed.
LEMMA RecvMapped ==
  ASSUME ExecInv, RecvOutput
  PROVE  CO!Next
<1> DEFINE pending == [kind |-> result, code |-> IF result = "exit" THEN exit ELSE 0]
<1>1. /\ result = "none" /\ UNCHANGED <<proc, code, child, wrote, exit, result>>
      /\ TypeOK /\ CopiersOK /\ TransitOK
  BY DEF RecvOutput, procVars, ExecInv
<1>2. PICK o \in Outputs, a \in Nat, b \in Nat, k \in Nat :
        /\ a < b /\ b <= read[o] /\ k <= b - a
        /\ Received(o, a)
        /\ shown' = [shown EXCEPT ![o] = @ \o Data(a + 1, a + k)]
        /\ failed' = IF k < b - a THEN failed \union {o} ELSE failed
        /\ o \notin failed' => shown'[o] = Data(1, b)
  BY <1>1, ChunkShown
<1>3. /\ read[o] \in Nat /\ wrote[o] \in Nat /\ b <= wrote[o]
      /\ shown \in [Outputs -> Seq(Nat)] /\ shown[o] \in Seq(Nat)
  BY <1>1, <1>2 DEF TypeOK, CopiersOK, CopierOK
<1>4. pending = CO!Pending /\ UNCHANGED pending
  BY <1>1 DEF CO!Pending
<1> HIDE DEF pending
<1>5. CASE o \notin failed'
  <2>1. o \notin failed /\ failed' = failed
    BY <1>2, <1>5
  <2>2. Len(shown[o]) = a
    BY <1>2, <2>1 DEF Received
  <2>3. b \in Len(shown[o]) + 1 .. wrote[o]
    BY <1>2, <1>3, <2>2
  <2>4. shown'[o] = CO!First(b)
    BY <1>2, <1>5, FirstIsData
  <2>5. shown' = [shown EXCEPT ![o] = CO!First(b)]
    BY <1>2, <1>3, <2>4
  <2>6. CO!Show(o)
    BY <1>1, <1>4, <2>1, <2>3, <2>5 DEF CO!Show, pending
  <2> QED
    BY <1>2, <2>6 DEF CO!Next
<1>6. CASE o \in failed'
  <2> DEFINE more == Data(a + 1, a + k)
  <2>1. failed' = failed \union {o}
    BY <1>2, <1>6
  <2>2. more = [n \in 1 .. k |-> a + n]
    <3>1. (a + k) - (a + 1) + 1 = k /\ \A n \in 1 .. k : (a + 1) + n - 1 = a + n
      BY <1>2
    <3> QED
      BY <3>1 DEF Data
  <2>3. shown' = [shown EXCEPT ![o] = @ \o more]
    BY <1>2
  <2> HIDE DEF more
  <2>4. \A n \in 1 .. k : a + n \in 1 .. wrote[o]
    BY <1>2, <1>3
  <2>5. k \in 0 .. wrote[o] /\ more \in [1 .. k -> 1 .. wrote[o]]
    BY <1>2, <1>3, <2>2, <2>4
  <2>6. \A n \in 1 .. k : CO!Later(o, more[n])
    <3> TAKE n \in 1 .. k
    <3>1. more[n] = a + n /\ a + n \in 1 .. wrote[o]
      BY <2>2, <2>4
    <3>2. \A i \in 1 .. Len(shown[o]) : shown[o][i] < a + n
      <4> TAKE i \in 1 .. Len(shown[o])
      <4>1. shown[o][i] \in Nat /\ shown[o][i] <= a
        BY <1>2, <1>3, LenProperties DEF Received
      <4> QED
        BY <1>2, <4>1
    <3> QED
      BY <3>1, <3>2 DEF CO!Later
  <2>7. \A i, j \in 1 .. k : i < j => more[i] < more[j]
    BY <1>2, <2>2
  <2>8. CO!ShowWithGaps(o)
    BY <1>1, <1>4, <2>1, <2>3, <2>5, <2>6, <2>7 DEF CO!ShowWithGaps, pending
  <2> QED
    BY <1>2, <2>8 DEF CO!Next
<1> QED
  BY <1>5, <1>6

\* The status ends the call: with the exit code when all is shown, or an error.
LEMMA StatusMapped ==
  ASSUME ExecInv, ExecInv', RecvStatus
  PROVE  CO!ReportCode \/ CO!ReportError
<1>1. /\ result = "none" /\ wire = << >>
      /\ result' = (IF status = "ok" THEN "exit" ELSE "error")
      /\ UNCHANGED <<proc, code, child, wrote, shown, failed, exit, status>>
      /\ TypeOK /\ CopiersOK /\ TransitOK
  BY DEF RecvStatus, procVars, callVars, ExecInv
<1>2. CASE status = "ok"
  <2>1. \A o \in Outputs : copier'[o] = "done"
    BY <1>1, <1>2 DEF ExecInv, CallOK
  <2>2. \A o \in Outputs : copier[o] = "done"
    BY <2>1 DEF RecvStatus, copyVars
  <2>3. proc = "exited" /\ ~ child /\ exit = Int32(code) /\ code \in -1 .. 2 * Half - 1
    <3>1. "stdout" \in Outputs
      BY DEF Outputs
    <3>2. exit = Int32(code) /\ code \in -1 .. 2 * Half - 1
      BY <1>1, <1>2 DEF ExecInv, CallOK, CodeOnTheWay
    <3> QED
      BY <1>1, <2>2, <3>1, <3>2, DoneSentAll
  <2>4. \A o \in Outputs : o \notin failed => shown[o] = CO!First(wrote[o])
    <3> TAKE o \in Outputs
    <3> HAVE o \notin failed
    <3>1. shown[o] = Data(1, Sent(o)) /\ Sent(o) = wrote[o] /\ wrote[o] \in Nat
      BY <1>1, <2>2, AllShown, DoneSentAll DEF TypeOK
    <3> QED
      BY <3>1, FirstIsData
  <2>5. /\ exit \in Int /\ (exit = 0 <=> code = 0)
        /\ code \in -Half .. Half - 1 => exit = code
    BY <2>3, Int32Keeps, ExecAssumption
  <2> DEFINE end == [kind |-> result', code |-> IF result' = "exit" THEN exit' ELSE 0]
  <2>6. end \in [kind : {"exit"}, code : Int] /\ end.code = exit
    BY <1>1, <1>2, <2>5
  <2> QED
    BY <1>1, <1>2, <2>3, <2>4, <2>5, <2>6 DEF CO!ReportCode, CO!Pending
<1>3. CASE status # "ok"
  BY <1>1, <1>3 DEF CO!ReportError, CO!Pending
<1> QED
  BY <1>2, <1>3

\* Every step of a call is a step of CommandOutput, or one it cannot see.
LEMMA MappedStep ==
  ASSUME ExecInv, ExecInv', [Next]_vars
  PROVE  [CO!Next]_CO!vars
<1> USE DEF Goto, procVars, copyVars, callVars, clientVars
<1>1. ASSUME NEW o \in Outputs, Write(o) PROVE [CO!Next]_CO!vars
  BY <1>1 DEF Write, CO!Write, CO!Next
<1>2. ASSUME Fork PROVE [CO!Next]_CO!vars
  BY <1>2 DEF Fork, CO!vars
<1>3. ASSUME NEW n \in Codes \union {Killed}, Exit(n) PROVE [CO!Next]_CO!vars
  <2>1. code' \in Int /\ proc = "running" /\ proc' = "exited"
        /\ UNCHANGED <<child, wrote, shown, failed, exit, result>>
    BY <1>3, ExecAssumption DEF Exit, Killed
  <2> QED
    BY <2>1, ExitMapped DEF CO!Next
<1>4. ASSUME ChildEnds PROVE [CO!Next]_CO!vars
  BY <1>4 DEF ChildEnds, CO!FamilyEnds, CO!Next, CO!vars
<1>5. ASSUME Kill PROVE [CO!Next]_CO!vars
  <2>1. code' \in Int /\ proc = "running" /\ proc' = "exited"
        /\ UNCHANGED <<child, wrote, shown, failed, exit, result>>
    BY <1>5 DEF Kill, Killed
  <2> QED
    BY <2>1, ExitMapped DEF CO!Next
<1>6. ASSUME NEW o \in Outputs, ReadPipe(o) PROVE [CO!Next]_CO!vars
  <2>1. UNCHANGED <<proc, code, child, wrote, shown, failed, exit, result>>
    BY <1>6 DEF ReadPipe
  <2> QED
    BY <2>1, Unseen
<1>7. ASSUME NEW o \in Outputs, PipeEnds(o) PROVE [CO!Next]_CO!vars
  <2>1. UNCHANGED <<proc, code, child, wrote, shown, failed, exit, result>>
    BY <1>7 DEF PipeEnds
  <2> QED
    BY <2>1, Unseen
<1>8. ASSUME NEW o \in Outputs, LockEmit(o) PROVE [CO!Next]_CO!vars
  <2>1. UNCHANGED <<proc, code, child, wrote, shown, failed, exit, result>>
    BY <1>8 DEF LockEmit, MuFree
  <2> QED
    BY <2>1, Unseen
<1>9. ASSUME NEW o \in Outputs, EmitChunk(o) PROVE [CO!Next]_CO!vars
  <2>1. UNCHANGED <<proc, code, child, wrote, shown, failed, exit, result>>
    BY <1>9 DEF EmitChunk, MuUnlock, Marked
  <2> QED
    BY <2>1, Unseen
<1>10. ASSUME NEW o \in Outputs, EmitFails(o) PROVE [CO!Next]_CO!vars
  <2>1. UNCHANGED <<proc, code, child, wrote, shown, failed, exit, result>>
    BY <1>10 DEF EmitFails, MuUnlock
  <2> QED
    BY <2>1, Unseen
<1>11. ASSUME StartCommand PROVE [CO!Next]_CO!vars
  BY <1>11 DEF StartCommand, ExecInv, CallOK, CO!vars
<1>12. ASSUME StartFails PROVE [CO!Next]_CO!vars
  <2>1. UNCHANGED <<proc, code, child, wrote, shown, failed, exit, result>>
    BY <1>12 DEF StartFails
  <2> QED
    BY <2>1, Unseen
<1>13. ASSUME RunReturnsCode PROVE [CO!Next]_CO!vars
  <2>1. UNCHANGED <<proc, code, child, wrote, shown, failed, exit, result>>
    BY <1>13 DEF RunReturnsCode, Waited
  <2> QED
    BY <2>1, Unseen
<1>14. ASSUME RunReturnsError PROVE [CO!Next]_CO!vars
  <2>1. UNCHANGED <<proc, code, child, wrote, shown, failed, exit, result>>
    BY <1>14 DEF RunReturnsError, Waited
  <2> QED
    BY <2>1, Unseen
<1>15. ASSUME SendCode PROVE [CO!Next]_CO!vars
  <2>1. UNCHANGED <<proc, code, child, wrote, shown, failed, exit, result>>
    BY <1>15 DEF SendCode
  <2> QED
    BY <2>1, Unseen
<1>16. ASSUME SendCodeFails PROVE [CO!Next]_CO!vars
  <2>1. UNCHANGED <<proc, code, child, wrote, shown, failed, exit, result>>
    BY <1>16 DEF SendCodeFails
  <2> QED
    BY <2>1, Unseen
<1>17. ASSUME Break PROVE [CO!Next]_CO!vars
  <2>1. UNCHANGED <<proc, code, child, wrote, shown, failed, exit, result>>
    BY <1>17 DEF Break
  <2> QED
    BY <2>1, Unseen
<1>18. ASSUME RecvOutput PROVE [CO!Next]_CO!vars
  BY <1>18, RecvMapped
<1>19. ASSUME RecvCode PROVE [CO!Next]_CO!vars
  BY <1>19 DEF RecvCode, CO!vars
<1>20. ASSUME RecvStatus PROVE [CO!Next]_CO!vars
  BY <1>20, StatusMapped DEF CO!Next
<1>21. ASSUME RecvFails PROVE [CO!Next]_CO!vars
  BY <1>21 DEF RecvFails, CO!ReportError, CO!Pending, CO!Next
<1>22. ASSUME UNCHANGED vars PROVE [CO!Next]_CO!vars
  <2>1. UNCHANGED <<proc, code, child, wrote, shown, failed, exit, result>>
    BY <1>22 DEF vars
  <2> QED
    BY <2>1, Unseen
<1> QED
  BY <1>1, <1>2, <1>3, <1>4, <1>5, <1>6, <1>7, <1>8, <1>9, <1>10, <1>11, <1>12, <1>13, <1>14, <1>15, <1>16, <1>17, <1>18, <1>19, <1>20, <1>21, <1>22 DEF Next, Copy, Handler, Client

\* A call implements CommandOutput: each output appears in order and not after
\* the end, an exit code is reported when the command and its descendants are
\* over and all they wrote is shown that the terminal took, and an error at any
\* time.
THEOREM ImplementsCommandOutputHolds == Spec => ImplementsCommandOutput
<1>1. Init => CO!Init
  BY DEF Init, CO!Init, CO!Pending
<1>2. ExecInv /\ ExecInv' /\ [Next]_vars => [CO!Next]_CO!vars
  BY MappedStep
<1> QED
  BY <1>1, <1>2, ExecInvariant, PTL DEF Spec, ImplementsCommandOutput, CO!Spec
===============================================================================
