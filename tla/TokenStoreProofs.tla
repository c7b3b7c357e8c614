--------------------------- MODULE TokenStoreProofs ---------------------------
(***************************************************************************)
(* What TokenStore guarantees for every set of processes and tokens, every *)
(* clock and every combination of failing system calls: its types; and,    *)
(* when the daemon serves one Enroll at a time, that the lock excludes,    *)
(* that tokens are single-use, that the store stays decodable; and, when   *)
(* reads do not fail, that no token is lost and that the store implements  *)
(* JoinTokens.                                                             *)
(***************************************************************************)
EXTENDS TokenStore, TLAPS

\* The daemon serves one Enroll at a time: without it the handlers, which share
\* one Flock, are both let in (a run shows what follows).
OneHandler == \A a, b \in Handlers : a = b

\* Reads of tokens.json do not fail: without it a failed read is taken for an
\* empty store (a run shows what follows).
ReadsWork == "read" \notin Faults

\* The steps on which a thread holds a map it is going to write.
Rewriting == {"open", "write", "rename"}

\* What a thread's token and result may be at each step.
Results ==
  /\ \A t \in Clis : pc[t] # "idle" => tok[t] \in minted
  /\ \A t \in Threads : pc[t] \in {"idle", "lock", "read", "fn"} => out[t] = "none"
  /\ \A t \in Handlers : Removed(t) => tok[t] \in Tokens

TypeInv == TypeOK /\ Results

\* A thread inside mutate holds the lock.
LockHeld == \A t \in Threads : pc[t] \in Critical => owner = Proc(t)

\* tokens.json.tmp belongs to the thread that is writing it.
TmpOwned ==
  /\ \A t \in Threads : fd[t] # "closed" => pc[t] = "write"
  /\ \A t \in Threads : pc[t] = "write" => fd[t] = "tmp" /\ tmp = {}
  /\ \A t \in Threads : pc[t] = "rename" => tmp = mem[t]

\* Tokens drawn by two `token new` processes differ, and one that is being
\* issued is in no file yet.
Fresh ==
  /\ \A t, u \in Clis : pc[t] # "idle" /\ pc[u] # "idle" /\ tok[t] = tok[u] => t = u
  /\ \A t \in Clis : pc[t] \notin {"idle", "unlock"} => tok[t] \notin main \union spent

\* The map a thread holds against tokens.json.
Maps ==
  /\ \A t \in Threads : pc[t] = "fn" => mem[t] \subseteq main
  /\ \A t \in Clis : pc[t] \in Rewriting => mem[t] \subseteq main \union {tok[t]}
  /\ \A t \in Handlers : pc[t] \in Rewriting =>
       /\ mem[t] \subseteq main
       /\ Removed(t) => tok[t] \in main /\ tok[t] \notin mem[t]

\* A spent token is out of the store, and a role is granted on a spent token.
Spending ==
  /\ main \subseteq minted /\ spent \subseteq minted
  /\ main \intersect spent = {}
  /\ \A k \in Tokens : wins[k] <= 1 /\ (wins[k] > 0 => k \in spent)
  /\ \A t \in Handlers : pc[t] = "unlock" /\ Removed(t) =>
       tok[t] \in spent /\ wins[tok[t]] = 0

StoreInv ==
  /\ TypeInv
  /\ main # Garbage
  /\ LockHeld
  /\ TmpOwned
  /\ Fresh
  /\ Maps
  /\ Spending

\* With reads that work, the map a thread holds is tokens.json with the one
\* change the thread makes, so that nothing a call has returned is dropped.
Keeping ==
  /\ known \subseteq spent \union main
  /\ \A t \in Threads : pc[t] = "fn" => mem[t] = main
  /\ \A t \in Clis : pc[t] \in Rewriting => mem[t] = main \union {tok[t]} /\ out[t] = "ok"
  /\ \A t \in Clis : pc[t] = "unlock" /\ out[t] = "ok" => tok[t] \in main
  /\ \A t \in Handlers : pc[t] \in Rewriting =>
       /\ mem[t] = main \ {tok[t]}
       /\ ~ Removed(t) => tok[t] \notin main

KeepInv == StoreInv /\ Keeping
-------------------------------------------------------------------------------
(* Types *)

\* Overwriting a file leaves the new map in it, or text that is no map.
LEMMA OverlayContents ==
  ASSUME NEW m \in SUBSET Tokens, NEW c, NEW x \in Overlay(m, c)
  PROVE  x \in Contents
BY DEF Overlay, Contents

\* The initial values are of their types.
LEMMA TypeInit == Init => TypeInv
BY ConstantsAssumption
DEF Init, TypeInv, TypeOK, Results, Contents, Threads, Procs, Critical, WinCap, NoFile, Removed

\* Every step keeps every variable in its type.
LEMMA TypeStep == TypeInv /\ [Next]_vars => TypeInv'
<1> SUFFICES ASSUME TypeInv, [Next]_vars PROVE TypeInv'
  OBVIOUS
<1> USE ConstantsAssumption
    DEF TypeInv, TypeOK, Results, Contents, Threads, Procs, Critical, WinCap,
        Goto, Result, Removed, fileVars, threadVars, history
<1>1. ASSUME NEW t \in Clis, NEW k \in Tokens, IssueCall(t, k) PROVE TypeInv'
  BY <1>1 DEF IssueCall
<1>2. ASSUME NEW t \in Handlers, NEW k \in Tokens \union {Stranger}, ConsumeCall(t, k) PROVE TypeInv'
  BY <1>2 DEF ConsumeCall
<1>3. ASSUME NEW t \in Clis, IssueFn(t) PROVE TypeInv'
  BY <1>3 DEF IssueFn, AfterFn
<1>4. ASSUME NEW t \in Handlers, ConsumeFn(t) PROVE TypeInv'
  BY <1>4 DEF ConsumeFn, Deleted, AfterFn
<1>5. ASSUME NEW t \in Threads, Lock(t) PROVE TypeInv'
  BY <1>5 DEF Lock, MayLock, Proc
<1>6. ASSUME NEW t \in Threads, LockFails(t) PROVE TypeInv'
  BY <1>6 DEF LockFails
<1>7. ASSUME NEW t \in Threads, Read(t) PROVE TypeInv'
  BY <1>7 DEF Read
<1>8. ASSUME NEW t \in Threads, ReadRefused(t) PROVE TypeInv'
  BY <1>8 DEF ReadRefused
<1>9. ASSUME NEW t \in Threads, ReadFails(t) PROVE TypeInv'
  BY <1>9 DEF ReadFails
<1>10. ASSUME NEW t \in Threads, OpenTmp(t) PROVE TypeInv'
  BY <1>10 DEF OpenTmp
<1>11. ASSUME NEW t \in Threads, WriteTmp(t) PROVE TypeInv'
  BY <1>11, OverlayContents DEF WriteTmp
<1>12. ASSUME NEW t \in Threads, WriteFails(t) PROVE TypeInv'
  BY <1>12 DEF WriteFails
<1>13. ASSUME NEW t \in Threads, Rename(t) PROVE TypeInv'
  BY <1>13 DEF Rename, Renamed, NoFile
<1>14. ASSUME NEW t \in Threads, RenameFails(t) PROVE TypeInv'
  BY <1>14 DEF RenameFails
<1>15. ASSUME NEW t \in Threads, Unlock(t) PROVE TypeInv'
  BY <1>15 DEF Unlock, AfterMutate, Released, Proc
<1>16. ASSUME NEW p \in Procs, Crash(p) PROVE TypeInv'
  BY <1>16 DEF Crash, Released, Proc
<1>17. ASSUME Tick PROVE TypeInv'
  BY <1>17 DEF Tick
<1>18. ASSUME UNCHANGED vars PROVE TypeInv'
  BY <1>18 DEF vars
<1> QED
  BY <1>1, <1>2, <1>3, <1>4, <1>5, <1>6, <1>7, <1>8, <1>9, <1>10, <1>11, <1>12, <1>13, <1>14, <1>15, <1>16, <1>17, <1>18 DEF Next, Mutate

\* Every variable keeps to its type, whatever the processes do and whatever
\* fails.
THEOREM TypeCorrect == Spec => []TypeOK
<1>1. Init => TypeInv
  BY TypeInit
<1>2. TypeInv /\ [Next]_vars => TypeInv'
  BY TypeStep
<1>3. TypeInv => TypeOK
  BY DEF TypeInv
<1> QED
  BY <1>1, <1>2, <1>3, PTL DEF Spec
-------------------------------------------------------------------------------
(* One Enroll at a time *)

\* With one handler, two threads are of two processes.
LEMMA ProcsDiffer ==
  ASSUME OneHandler, NEW t \in Threads, NEW u \in Threads, Proc(t) = Proc(u)
  PROVE  t = u
BY ConstantsAssumption DEF OneHandler, Threads, Proc

\* The lock excludes: one thread at most is inside mutate.
LEMMA Alone ==
  ASSUME OneHandler, LockHeld,
         NEW t \in Threads, pc[t] \in Critical,
         NEW u \in Threads, pc[u] \in Critical
  PROVE  t = u
BY ProcsDiffer DEF LockHeld

\* What decodes is a set of tokens.
LEMMA NotGarbage ==
  ASSUME NEW c \in Contents, c # Garbage
  PROVE  c \in SUBSET Tokens
BY DEF Contents

\* A set of tokens decodes.
LEMMA MapNotGarbage ==
  ASSUME NEW c \in SUBSET Tokens
  PROVE  c # Garbage /\ c # NoFile
BY ConstantsAssumption DEF Garbage, NoFile

\* An empty store, with nobody inside mutate.
LEMMA StoreInit == Init => StoreInv
<1> SUFFICES ASSUME Init PROVE StoreInv
  OBVIOUS
<1>1. TypeInv
  BY TypeInit
<1>2. main # Garbage
  BY ConstantsAssumption DEF Init, Garbage
<1>3. LockHeld /\ TmpOwned /\ Fresh /\ Maps
  BY DEF Init, LockHeld, TmpOwned, Fresh, Maps, Critical, Rewriting, Threads
<1>4. Spending
  BY DEF Init, Spending, Threads
<1> QED
  BY <1>1, <1>2, <1>3, <1>4 DEF StoreInv

\* Every step keeps the invariant.
LEMMA StoreStep ==
  ASSUME OneHandler, StoreInv, [Next]_vars
  PROVE  StoreInv'
<1> TypeInv /\ TypeInv'
  BY TypeStep DEF StoreInv
<1> main \in SUBSET Tokens
  BY NotGarbage DEF StoreInv, TypeInv, TypeOK
<1> USE ConstantsAssumption
    DEF StoreInv, LockHeld, TmpOwned, Fresh, Maps, Spending, TypeInv, TypeOK, Results,
        Threads, Procs, Critical, Rewriting, Removed, Goto, Result,
        fileVars, threadVars, history
<1>1. ASSUME NEW t \in Clis, NEW k \in Tokens, IssueCall(t, k) PROVE StoreInv'
  BY <1>1 DEF IssueCall
<1>2. ASSUME NEW t \in Handlers, NEW k \in Tokens \union {Stranger}, ConsumeCall(t, k) PROVE StoreInv'
  BY <1>2 DEF ConsumeCall
<1>3. ASSUME NEW t \in Clis, IssueFn(t) PROVE StoreInv'
  BY <1>3, Alone DEF IssueFn, AfterFn
<1>4. ASSUME NEW t \in Handlers, ConsumeFn(t) PROVE StoreInv'
  BY <1>4, Alone DEF ConsumeFn, Deleted, AfterFn
<1>5. ASSUME NEW t \in Threads, Lock(t) PROVE StoreInv'
  BY <1>5, ProcsDiffer DEF Lock, MayLock, Proc
<1>6. ASSUME NEW t \in Threads, LockFails(t) PROVE StoreInv'
  BY <1>6 DEF LockFails
<1>7. ASSUME NEW t \in Threads, Read(t) PROVE StoreInv'
  BY <1>7, Alone DEF Read
<1>8. ASSUME NEW t \in Threads, ReadRefused(t) PROVE StoreInv'
  BY <1>8, Alone DEF ReadRefused
<1>9. ASSUME NEW t \in Threads, ReadFails(t) PROVE StoreInv'
  BY <1>9, Alone DEF ReadFails
<1>10. ASSUME NEW t \in Threads, OpenTmp(t) PROVE StoreInv'
  BY <1>10, Alone DEF OpenTmp
<1>11. ASSUME NEW t \in Threads, WriteTmp(t) PROVE StoreInv'
  BY <1>11, Alone DEF WriteTmp, Overlay
<1>12. ASSUME NEW t \in Threads, WriteFails(t) PROVE StoreInv'
  BY <1>12, Alone DEF WriteFails
<1>13. ASSUME NEW t \in Threads, Rename(t) PROVE StoreInv'
  <2> USE <1>13 DEF Rename
  <2>1. /\ pc[t] = "rename" /\ main' = mem[t] /\ mem[t] \in SUBSET Tokens
        /\ \A u \in Threads : u # t => pc[u] \notin Critical
    BY Alone
  <2>2. \A u \in Threads : fd[u] = "closed" /\ fd'[u] = "closed"
    <3>1. \A u \in Threads : fd[u] = "closed"
      BY <2>1
    <3> QED
      BY <3>1 DEF Renamed
  <2>3. main' # Garbage
    BY <2>1, MapNotGarbage
  <2>4. LockHeld'
    BY <2>1
  <2>5. \A u \in Threads : pc'[u] \notin {"write", "rename"}
    BY <2>1
  <2>6. TmpOwned'
    BY <2>2, <2>5
  <2>7. t \in Clis => main' \subseteq main \union {tok[t]} /\ spent' = spent
    BY <2>1
  <2>8. t \in Handlers => main' \subseteq main /\ spent' \subseteq spent \union main
    BY <2>1
  <2>9. Fresh'
    BY <2>1, <2>7, <2>8
  <2>10. Maps'
    BY <2>1
  <2>11. Spending'
    BY <2>1, <2>7, <2>8
  <2> QED
    BY <2>3, <2>4, <2>6, <2>9, <2>10, <2>11
<1>14. ASSUME NEW t \in Threads, RenameFails(t) PROVE StoreInv'
  BY <1>14, Alone DEF RenameFails
<1>15. ASSUME NEW t \in Threads, Unlock(t) PROVE StoreInv'
  BY <1>15, Alone DEF Unlock, AfterMutate, Released, Proc
<1>16. ASSUME NEW p \in Procs, Crash(p) PROVE StoreInv'
  BY <1>16 DEF Crash, Released, Proc
<1>17. ASSUME Tick PROVE StoreInv'
  BY <1>17 DEF Tick
<1>18. ASSUME UNCHANGED vars PROVE StoreInv'
  BY <1>18 DEF vars
<1> QED
  BY <1>1, <1>2, <1>3, <1>4, <1>5, <1>6, <1>7, <1>8, <1>9, <1>10, <1>11, <1>12, <1>13, <1>14, <1>15, <1>16, <1>17, <1>18 DEF Next, Mutate

\* The inductive invariant of the store: who is inside mutate is alone, owns
\* tokens.json.tmp, and spends a token that is in no other hands.
THEOREM StoreInvariant ==
  ASSUME OneHandler
  PROVE  Spec => []StoreInv
<1>1. Init => StoreInv
  BY StoreInit
<1>2. StoreInv /\ [Next]_vars => StoreInv'
  BY StoreStep
<1> QED
  BY <1>1, <1>2, PTL DEF Spec

\* With one Enroll at a time a token grants its role once at most, though
\* `token new` processes run beside it, any system call fails, or any process
\* dies at any step.
THEOREM SingleUseHolds ==
  ASSUME OneHandler
  PROVE  Spec => []SingleUse
<1>1. StoreInv => SingleUse
  BY DEF StoreInv, Spending, SingleUse
<1> QED
  BY <1>1, StoreInvariant, PTL

\* tokens.json can be decoded at every moment.
THEOREM StoreDecodableHolds ==
  ASSUME OneHandler
  PROVE  Spec => []StoreDecodable
<1>1. StoreInv => StoreDecodable
  BY DEF StoreInv, StoreDecodable
<1> QED
  BY <1>1, StoreInvariant, PTL

\* A Consume that answers has taken its token off the disk.
THEOREM AnswerDurableHolds ==
  ASSUME OneHandler
  PROVE  Spec => []AnswerDurable
<1>1. StoreInv => AnswerDurable
  BY DEF StoreInv, Spending, AnswerDurable, Stored
<1> QED
  BY <1>1, StoreInvariant, PTL

-------------------------------------------------------------------------------
(* One Enroll at a time, and reads that work *)

\* Nothing was handed out yet, so nothing can be lost.
LEMMA KeepInit == Init => KeepInv
BY StoreInit DEF Init, KeepInv, Keeping, Rewriting, Threads

\* Every step keeps the stronger invariant.
LEMMA KeepStep ==
  ASSUME OneHandler, ReadsWork, KeepInv, [Next]_vars
  PROVE  KeepInv'
<1> StoreInv /\ StoreInv'
  BY StoreStep DEF KeepInv
<1> main \in SUBSET Tokens
  BY NotGarbage DEF StoreInv, TypeInv, TypeOK
<1> SUFFICES Keeping'
  BY DEF KeepInv
<1> USE ConstantsAssumption
    DEF KeepInv, Keeping, StoreInv, LockHeld, TmpOwned, Fresh, Maps, Spending,
        TypeInv, TypeOK, Results, Threads, Procs, Critical, Rewriting, Removed,
        Goto, Result, fileVars, threadVars, history
<1>1. ASSUME NEW t \in Clis, NEW k \in Tokens, IssueCall(t, k) PROVE Keeping'
  BY <1>1 DEF IssueCall
<1>2. ASSUME NEW t \in Handlers, NEW k \in Tokens \union {Stranger}, ConsumeCall(t, k) PROVE Keeping'
  BY <1>2 DEF ConsumeCall
<1>3. ASSUME NEW t \in Clis, IssueFn(t) PROVE Keeping'
  BY <1>3, Alone DEF IssueFn, AfterFn
<1>4. ASSUME NEW t \in Handlers, ConsumeFn(t) PROVE Keeping'
  BY <1>4, Alone DEF ConsumeFn, Deleted, AfterFn
<1>5. ASSUME NEW t \in Threads, Lock(t) PROVE Keeping'
  BY <1>5 DEF Lock
<1>6. ASSUME NEW t \in Threads, LockFails(t) PROVE Keeping'
  BY <1>6 DEF LockFails
<1>7. ASSUME NEW t \in Threads, Read(t) PROVE Keeping'
  BY <1>7, Alone DEF Read
<1>8. ASSUME NEW t \in Threads, ReadRefused(t) PROVE Keeping'
  BY <1>8 DEF ReadRefused
<1>9. ASSUME NEW t \in Threads, ReadFails(t) PROVE Keeping'
  BY <1>9 DEF ReadFails, ReadsWork
<1>10. ASSUME NEW t \in Threads, OpenTmp(t) PROVE Keeping'
  BY <1>10, Alone DEF OpenTmp
<1>11. ASSUME NEW t \in Threads, WriteTmp(t) PROVE Keeping'
  BY <1>11, Alone DEF WriteTmp
<1>12. ASSUME NEW t \in Threads, WriteFails(t) PROVE Keeping'
  BY <1>12, Alone DEF WriteFails
<1>13. ASSUME NEW t \in Threads, Rename(t) PROVE Keeping'
  BY <1>13, Alone DEF Rename
<1>14. ASSUME NEW t \in Threads, RenameFails(t) PROVE Keeping'
  BY <1>14, Alone DEF RenameFails
<1>15. ASSUME NEW t \in Threads, Unlock(t) PROVE Keeping'
  BY <1>15, Alone DEF Unlock
<1>16. ASSUME NEW p \in Procs, Crash(p) PROVE Keeping'
  BY <1>16 DEF Crash, Released, Proc
<1>17. ASSUME Tick PROVE Keeping'
  BY <1>17 DEF Tick
<1>18. ASSUME UNCHANGED vars PROVE Keeping'
  BY <1>18 DEF vars
<1> QED
  BY <1>1, <1>2, <1>3, <1>4, <1>5, <1>6, <1>7, <1>8, <1>9, <1>10, <1>11, <1>12, <1>13, <1>14, <1>15, <1>16, <1>17, <1>18 DEF Next, Mutate

\* The map in hand is the file's, but for the token of the call: what a failed
\* read would break.
THEOREM KeepInvariant ==
  ASSUME OneHandler, ReadsWork
  PROVE  Spec => []KeepInv
<1>1. Init => KeepInv
  BY KeepInit
<1>2. KeepInv /\ [Next]_vars => KeepInv'
  BY KeepStep
<1> QED
  BY <1>1, <1>2, PTL DEF Spec

\* If moreover reads of tokens.json work, a token that was handed out is in the
\* store until it is spent.
THEOREM NoTokenLostHolds ==
  ASSUME OneHandler, ReadsWork
  PROVE  Spec => []NoTokenLost
<1>1. KeepInv => NoTokenLost
  BY DEF KeepInv, Keeping, StoreInv, NoTokenLost, Stored
<1> QED
  BY <1>1, KeepInvariant, PTL
-------------------------------------------------------------------------------
(* The store implements JoinTokens *)

\* Where a token is in the life of JoinTokens.
Status(k) == IF k \in spent THEN "spent" ELSE IF k \in main THEN "live" ELSE "unissued"

\* The life of a token, by what the file and the history say.
LEMMA MappedStatus ==
  ASSUME main # Garbage
  PROVE  /\ JT!vars = <<[k \in Tokens |-> Status(k)], wins>>
         /\ JT!Init <=> /\ [k \in Tokens |-> Status(k)] = [k \in Tokens |-> "unissued"]
                        /\ wins = [k \in Tokens |-> 0]
BY DEF JT!vars, JT!Init, Stored, Status

\* Every token is still unissued.
LEMMA RefineInit == Init => JT!Init
<1> SUFFICES ASSUME Init PROVE JT!Init
  OBVIOUS
<1>1. main # Garbage
  BY StoreInit DEF StoreInv
<1>2. \A k \in Tokens : Status(k) = "unissued"
  BY DEF Init, Status
<1> QED
  BY <1>1, <1>2, MappedStatus DEF Init

\* A step that leaves the store, the spent tokens and the grants alone stutters.
LEMMA Stutter ==
  ASSUME main' = main, spent' = spent, wins' = wins
  PROVE  UNCHANGED JT!vars
BY DEF JT!vars, Stored

\* The rename of a `token new` process issues its token; that of an Enroll
\* spends one, or leaves the store as it was.
LEMMA RefineRename ==
  ASSUME OneHandler, ReadsWork, KeepInv, KeepInv', NEW t \in Threads, Rename(t)
  PROVE  JT!Next \/ UNCHANGED JT!vars
<1>1. /\ main' = mem[t] /\ wins' = wins /\ main # Garbage /\ main' # Garbage
      /\ main \in SUBSET Tokens /\ main \intersect spent = {}
  BY NotGarbage
  DEF Rename, KeepInv, StoreInv, TypeInv, TypeOK, TmpOwned, Spending
<1>2. CASE t \in Clis
  <2>1. PICK k \in Tokens : k = tok[t]
    BY <1>2 DEF Rename, KeepInv, StoreInv, TypeInv, TypeOK, Results
  <2>2. main' = main \union {k} /\ spent' = spent /\ k \notin main \union spent
    BY <1>1, <1>2, <2>1, ConstantsAssumption
    DEF Rename, KeepInv, StoreInv, Keeping, Fresh, Rewriting, Removed
  <2>3. JT!Issue(k)
    BY <1>1, <2>2 DEF JT!Issue, Stored
  <2> QED
    BY <2>3 DEF JT!Next
<1>3. CASE t \in Handlers /\ Removed(t)
  <2>1. PICK k \in Tokens : k = tok[t]
    BY <1>3 DEF KeepInv, StoreInv, TypeInv, Results
  <2>2. /\ main' = main \ {k} /\ spent' = spent \union {k}
        /\ k \in main /\ k \notin spent
    BY <1>1, <1>3, <2>1 DEF Rename, KeepInv, StoreInv, Keeping, Maps, Rewriting
  <2>3. JT!Spend(k)
    BY <1>1, <2>2 DEF JT!Spend, Stored
  <2> QED
    BY <2>3 DEF JT!Next
<1>4. CASE t \in Handlers /\ ~ Removed(t)
  <2>1. mem[t] = main \ {tok[t]} /\ tok[t] \notin main
    BY <1>4 DEF Rename, KeepInv, Keeping, Rewriting
  <2>2. main' = main
    BY <1>1, <2>1
  <2>3. spent' = spent
    BY <1>4 DEF Rename
  <2> QED
    BY <1>1, <2>2, <2>3, Stutter
<1> QED
  BY <1>2, <1>3, <1>4 DEF Threads

\* The return of a Consume that succeeded grants the role.
LEMMA RefineUnlock ==
  ASSUME KeepInv, NEW t \in Threads, Unlock(t)
  PROVE  JT!Next \/ UNCHANGED JT!vars
<1>1. CASE wins' = wins
  BY <1>1, Stutter DEF Unlock, fileVars
<1>2. CASE wins' # wins
  <2>1. /\ t \in Handlers /\ Removed(t) /\ pc[t] = "unlock"
        /\ wins' = [wins EXCEPT ![tok[t]] = @ + 1]
    BY <1>2 DEF Unlock, Removed
  <2>2. PICK k \in Tokens : k = tok[t]
    BY <2>1 DEF KeepInv, StoreInv, TypeInv, Results
  <2>3. k \in spent /\ wins[k] = 0
    BY <2>1, <2>2 DEF KeepInv, StoreInv, Spending
  <2>4. wins' = [wins EXCEPT ![k] = 1]
    BY <2>1, <2>2, <2>3
  <2>5. JT!Grant(k)
    BY <2>3, <2>4 DEF JT!Grant, Unlock, fileVars, Stored
  <2> QED
    BY <2>5 DEF JT!Next
<1> QED
  BY <1>1, <1>2

\* Every step of the store is a step in the life of tokens, or none.
LEMMA RefineStep ==
  ASSUME OneHandler, ReadsWork, KeepInv, KeepInv', [Next]_vars
  PROVE  JT!Next \/ UNCHANGED JT!vars
<1>1. ASSUME NEW t \in Threads, WriteTmp(t) PROVE UNCHANGED JT!vars
  BY <1>1, Stutter DEF WriteTmp, KeepInv, StoreInv, TmpOwned, history
<1>2. ASSUME NEW t \in Threads, WriteFails(t) PROVE UNCHANGED JT!vars
  BY <1>2, Stutter DEF WriteFails, KeepInv, StoreInv, TmpOwned, history
<1>3. ASSUME NEW t \in Threads, Rename(t) PROVE JT!Next \/ UNCHANGED JT!vars
  BY <1>3, RefineRename
<1>4. ASSUME NEW t \in Threads, Unlock(t) PROVE JT!Next \/ UNCHANGED JT!vars
  BY <1>4, RefineUnlock
<1>5. ASSUME NEW t \in Threads, Mutate(t) PROVE JT!Next \/ UNCHANGED JT!vars
  <2> USE Stutter DEF fileVars, threadVars, history
  <2>1. CASE Lock(t) \/ LockFails(t)
    BY <2>1 DEF Lock, LockFails
  <2>2. CASE Read(t) \/ ReadRefused(t) \/ ReadFails(t)
    BY <2>2 DEF Read, ReadRefused, ReadFails
  <2>3. CASE OpenTmp(t) \/ RenameFails(t)
    BY <2>3 DEF OpenTmp, RenameFails
  <2> QED
    BY <1>5, <1>1, <1>2, <1>3, <1>4, <2>1, <2>2, <2>3 DEF Mutate
<1>6. ASSUME NEW t \in Clis, IssueFn(t) \/ \E k \in Tokens : IssueCall(t, k)
      PROVE  UNCHANGED JT!vars
  BY <1>6, Stutter DEF IssueFn, IssueCall, fileVars, history
<1>7. ASSUME NEW t \in Handlers,
             ConsumeFn(t) \/ \E k \in Tokens \union {Stranger} : ConsumeCall(t, k)
      PROVE  UNCHANGED JT!vars
  BY <1>7, Stutter DEF ConsumeFn, ConsumeCall, fileVars, history
<1>8. ASSUME NEW p \in Procs, Crash(p) PROVE UNCHANGED JT!vars
  BY <1>8, Stutter DEF Crash, fileVars, history
<1>9. ASSUME Tick \/ UNCHANGED vars PROVE UNCHANGED JT!vars
  BY <1>9, Stutter DEF Tick, vars, fileVars, history
<1> QED
  BY <1>5, <1>6, <1>7, <1>8, <1>9 DEF Next

\* The files, the lock, the faults and the crashes implement the life of a join
\* token: issued once, spent once, its role granted once and only then.
THEOREM ImplementsJoinTokensHolds ==
  ASSUME OneHandler, ReadsWork
  PROVE  Spec => ImplementsJoinTokens
<1>1. Init => JT!Init
  BY RefineInit
<1>2. KeepInv /\ KeepInv' /\ [Next]_vars => [JT!Next]_JT!vars
  BY RefineStep
<1>3. Spec => []KeepInv
  BY KeepInvariant
<1> QED
  BY <1>1, <1>2, <1>3, PTL DEF Spec, ImplementsJoinTokens, JT!Spec
===============================================================================
