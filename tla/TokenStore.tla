------------------------------ MODULE TokenStore ------------------------------
(***************************************************************************)
(* internal/token: the join-token file tokens.json, guarded by a file lock *)
(* and rewritten through tokens.json.tmp, shared by the Enroll handlers of *)
(* the daemon (which Consume) and by `rexec-agentd token new` processes    *)
(* (which Issue).  One action per step of FileStore.mutate that another    *)
(* process, another handler or a crash can fall between.                   *)
(*                                                                         *)
(* Every process holds one FileStore and so one *flock.Flock: all handlers *)
(* of the daemon share one.  Files follow POSIX: a rename replaces the     *)
(* name, an open descriptor keeps the file it was opened on.               *)
(***************************************************************************)
EXTENDS Naturals, FiniteSets

CONSTANTS
  Handlers,   \* goroutines of the daemon serving Enroll
  Clis,       \* `token new` processes
  Daemon,     \* the daemon process
  Tokens,     \* the values randToken may return
  Stranger,   \* a string no Issue ever returned
  Ttls,       \* the lifetimes a token may be issued with
  MaxTime,    \* bound on the clock
  Faults,     \* the system calls that may fail: "lock", "read", "write"
  None

Threads == Handlers \union Clis
Procs == {Daemon} \union Clis

\* What a file holds: the tokens of an encoded map, or text that is not one.
\* A set that is no set of tokens stands for such text, another for no file.
Garbage == {Stranger}
NoFile == {None}
Contents == (SUBSET Tokens) \union {Garbage}

ASSUME ConstantsAssumption ==
  /\ Handlers \intersect Clis = {}
  /\ Daemon \notin Clis
  /\ Stranger \notin Tokens
  /\ Ttls \subseteq Nat
  /\ MaxTime \in Nat
  /\ Faults \subseteq {"lock", "read", "write"}
  /\ None \notin Procs \union Tokens \union {Stranger}

VARIABLES
  main,     \* tokens.json: the tokens with a record in it ({}: none, or no file)
  tmp,      \* tokens.json.tmp
  expiry,   \* expiry[k]: the Expiry field of token k's record
  owner,    \* the process whose Flock is locked
  now,      \* the clock every process reads
  pc,       \* pc[t]: the step of mutate thread t does next
  tok,      \* tok[t]: the token t issues or consumes
  mem,      \* mem[t]: the tokens of t's in-memory map
  fd,       \* fd[t]: what the name t opened as tokens.json.tmp is now
  out,      \* out[t]: the result t will return
  minted,   \* history: values randToken has returned
  known,    \* history: tokens an Issue call has returned to its operator
  spent,    \* history: tokens a Consume call has removed from tokens.json
  wins      \* history: per token, Consume calls that returned its role

fileVars == <<main, tmp, expiry>>
threadVars == <<pc, tok, mem, fd, out>>
history == <<minted, known, spent, wins>>
vars == <<fileVars, owner, now, threadVars, history>>

\* Bound on the history counter: two grants of one token are one too many.
WinCap == 2

Proc(t) == IF t \in Handlers THEN Daemon ELSE t

\* The steps between s.lock.Lock and s.lock.Unlock.
Critical == {"read", "fn", "open", "write", "rename", "unlock"}

Init ==
  /\ main = {}
  /\ tmp = NoFile
  /\ expiry = [k \in Tokens |-> 0]
  /\ owner = None
  /\ now = 0
  /\ pc = [t \in Threads |-> "idle"]
  /\ tok = [t \in Threads |-> None]
  /\ mem = [t \in Threads |-> {}]
  /\ fd = [t \in Threads |-> "closed"]
  /\ out = [t \in Threads |-> "none"]
  /\ minted = {}
  /\ known = {}
  /\ spent = {}
  /\ wins = [k \in Tokens |-> 0]

Goto(t, step) == pc' = [pc EXCEPT ![t] = step]
Result(t, r) == out' = [out EXCEPT ![t] = r]

-------------------------------------------------------------------------------
(* The calls *)

\* A `token new` process draws a random value and enters mutate.
IssueCall(t, k) ==
  /\ pc[t] = "idle"
  /\ k \notin minted
  /\ minted' = minted \union {k}
  /\ tok' = [tok EXCEPT ![t] = k]
  /\ Goto(t, "lock")
  /\ UNCHANGED <<fileVars, owner, now, mem, fd, out, known, spent, wins>>

\* An Enroll request presents a token an operator was given, used before or
\* not, or a string that never was one.
ConsumeCall(t, k) ==
  /\ pc[t] = "idle"
  /\ k \in known \union {Stranger}
  /\ tok' = [tok EXCEPT ![t] = k]
  /\ Goto(t, "lock")
  /\ UNCHANGED <<fileVars, owner, now, mem, fd, out, history>>

\* Whether the Flock of process p is to be had: nobody has the file locked, or
\* this very Flock has, whoever locked it.
MayLock(p) == owner \in {None, p}

\* What becomes of the lock when process p unlocks or dies: a no-op when p has
\* not locked it.
Released(p) == IF owner = p THEN None ELSE owner

\* Mutant of Lock: mutate goes on without it.
EnterUnlocked(t) ==
  /\ pc[t] = "lock"
  /\ Goto(t, "read")
  /\ UNCHANGED <<fileVars, owner, now, tok, mem, fd, out, history>>

\* Flock.Lock: waits while another process has the file locked.
Lock(t) ==
  /\ pc[t] = "lock"
  /\ MayLock(Proc(t))
  /\ owner' = Proc(t)
  /\ Goto(t, "read")
  /\ UNCHANGED <<fileVars, now, tok, mem, fd, out, history>>

\* MkdirAll or the lock fails: mutate returns before it holds anything.
LockFails(t) ==
  /\ pc[t] = "lock"
  /\ "lock" \in Faults
  /\ Goto(t, "idle")
  /\ tok' = [tok EXCEPT ![t] = None]
  /\ UNCHANGED <<fileVars, owner, now, mem, fd, out, history>>

\* read: decode tokens.json; a missing or empty file is an empty map.
Read(t) ==
  /\ pc[t] = "read"
  /\ main # Garbage
  /\ mem' = [mem EXCEPT ![t] = main]
  /\ Goto(t, "fn")
  /\ UNCHANGED <<fileVars, owner, now, tok, fd, out, history>>

\* read: the content does not decode, or an error came with part of the data.
ReadRefused(t) ==
  /\ pc[t] = "read"
  /\ main = Garbage \/ "read" \in Faults
  /\ Result(t, "error")
  /\ Goto(t, "unlock")
  /\ UNCHANGED <<fileVars, owner, now, tok, mem, fd, history>>

\* read: ReadFile fails and returns no data; len(data) == 0 is tested before
\* err, so the failure is taken for an empty store.
ReadFails(t) ==
  /\ pc[t] = "read"
  /\ "read" \in Faults
  /\ mem' = [mem EXCEPT ![t] = {}]
  /\ Goto(t, "fn")
  /\ UNCHANGED <<fileVars, owner, now, tok, fd, out, history>>

\* The step after the function returned r: the map is written even when it
\* reported an error.  Mutant: only when it did not.
WriteOnSuccess(r) == IF r = "ok" THEN "open" ELSE "unlock"
AfterFn(r) == "open"

\* The map without a consumed token.  Mutants: it stays; it is put in.
Kept(m, k) == m
Added(m, k) == m \union {k}
Deleted(m, k) == m \ {k}

\* The function Issue passes to mutate.
IssueFn(t) ==
  /\ pc[t] = "fn"
  /\ mem' = [mem EXCEPT ![t] = @ \union {tok[t]}]
  /\ \E ttl \in Ttls : expiry' = [expiry EXCEPT ![tok[t]] = now + ttl]
  /\ Result(t, "ok")
  /\ Goto(t, AfterFn("ok"))
  /\ UNCHANGED <<main, tmp, owner, now, tok, fd, history>>

\* The function Consume passes to mutate: an expired token is removed too.
ConsumeFn(t) ==
  /\ pc[t] = "fn"
  /\ mem' = [mem EXCEPT ![t] = Deleted(@, tok[t])]
  /\ LET r == IF tok[t] \notin mem[t] THEN "unknown"
              ELSE IF now > expiry[tok[t]] THEN "expired" ELSE "ok"
     IN  Result(t, r) /\ Goto(t, AfterFn(r))
  /\ UNCHANGED <<fileVars, owner, now, tok, fd, history>>

\* Mutant of OpenTmp: tokens.json is rewritten in place.
OpenInPlace(t) ==
  /\ pc[t] = "open"
  /\ main' = {}
  /\ tmp' = {}
  /\ fd' = [fd EXCEPT ![t] = "main"]
  /\ Goto(t, "write")
  /\ UNCHANGED <<expiry, owner, now, tok, mem, out, history>>

\* write: os.WriteFile opens tokens.json.tmp with O_CREATE|O_TRUNC.
OpenTmp(t) ==
  /\ pc[t] = "open"
  /\ tmp' = {}
  /\ fd' = [fd EXCEPT ![t] = "tmp"]
  /\ Goto(t, "write")
  /\ UNCHANGED <<main, expiry, owner, now, tok, mem, out, history>>

\* What a file with content c may hold after m is written at its start: over
\* a longer text the end of that text remains, and two maps of as many tokens
\* may differ in length by their roles and times.
Overlay(m, c) ==
  IF c = {} \/ c = m THEN {m}
  ELSE IF c = Garbage THEN {m, Garbage}
  ELSE IF Cardinality(m) > Cardinality(c) THEN {m}
  ELSE IF Cardinality(m) = Cardinality(c) THEN {m, Garbage}
  ELSE {Garbage}

\* write: the encoded map goes to the file the descriptor is open on, wherever
\* that file is named by now.
WriteTmp(t) ==
  /\ pc[t] = "write"
  /\ IF fd[t] = "tmp" THEN tmp' \in Overlay(mem[t], tmp) ELSE UNCHANGED tmp
  /\ IF fd[t] = "main" THEN main' \in Overlay(mem[t], main) ELSE UNCHANGED main
  /\ fd' = [fd EXCEPT ![t] = "closed"]
  /\ Goto(t, "rename")
  /\ UNCHANGED <<expiry, owner, now, tok, mem, out, history>>

\* write: opening or writing fails, perhaps after part of the data.
WriteFails(t) ==
  /\ pc[t] \in {"open", "write"}
  /\ "write" \in Faults
  /\ tmp' \in IF fd[t] = "tmp" THEN {tmp, Garbage} ELSE {tmp}
  /\ main' \in IF fd[t] = "main" THEN {main, Garbage} ELSE {main}
  /\ fd' = [fd EXCEPT ![t] = "closed"]
  /\ Result(t, "error")
  /\ Goto(t, "unlock")
  /\ UNCHANGED <<expiry, owner, now, tok, mem, history>>

\* What an open descriptor is named after tmp has been renamed over main.
Renamed(d) == IF d = "tmp" THEN "main" ELSE IF d = "main" THEN "gone" ELSE d

\* Whether thread t took a token out of its map.
Removed(t) == t \in Handlers /\ out[t] \in {"ok", "expired"}

\* write: os.Rename makes the new map the store.
Rename(t) ==
  /\ pc[t] = "rename"
  /\ tmp # NoFile
  /\ main' = tmp
  /\ tmp' = NoFile
  /\ fd' = [u \in Threads |-> Renamed(fd[u])]
  /\ spent' = IF Removed(t) THEN spent \union {tok[t]} ELSE spent
  /\ Goto(t, "unlock")
  /\ UNCHANGED <<expiry, owner, now, tok, mem, out, minted, known, wins>>

\* write: os.Rename finds no tokens.json.tmp, or fails.
RenameFails(t) ==
  /\ pc[t] = "rename"
  /\ tmp = NoFile \/ "write" \in Faults
  /\ Result(t, "error")
  /\ Goto(t, "unlock")
  /\ UNCHANGED <<fileVars, owner, now, tok, mem, fd, history>>

\* The lock after mutate has returned: its Unlock is deferred.  Mutant: there is
\* no Unlock.
NoUnlock(t) == owner
AfterMutate(t) == Released(Proc(t))

\* The deferred Flock.Unlock, and the return of Issue or Consume.
Unlock(t) ==
  /\ pc[t] = "unlock"
  /\ owner' = AfterMutate(t)
  /\ known' = IF t \in Clis /\ out[t] = "ok" THEN known \union {tok[t]} ELSE known
  /\ wins' = IF t \in Handlers /\ out[t] = "ok" /\ wins[tok[t]] < WinCap
             THEN [wins EXCEPT ![tok[t]] = @ + 1] ELSE wins
  /\ Goto(t, "idle")
  /\ tok' = [tok EXCEPT ![t] = None]
  /\ mem' = [mem EXCEPT ![t] = {}]
  /\ Result(t, "none")
  /\ UNCHANGED <<fileVars, now, fd, minted, spent>>

\* A process dies: its threads are gone and the system closes its files, which
\* releases the lock.  Nothing is cleaned up on disk.
Crash(p) ==
  /\ \E t \in Threads : Proc(t) = p /\ pc[t] # "idle"
  /\ pc' = [t \in Threads |-> IF Proc(t) = p THEN "idle" ELSE pc[t]]
  /\ tok' = [t \in Threads |-> IF Proc(t) = p THEN None ELSE tok[t]]
  /\ mem' = [t \in Threads |-> IF Proc(t) = p THEN {} ELSE mem[t]]
  /\ fd' = [t \in Threads |-> IF Proc(t) = p THEN "closed" ELSE fd[t]]
  /\ out' = [t \in Threads |-> IF Proc(t) = p THEN "none" ELSE out[t]]
  /\ owner' = Released(p)
  /\ UNCHANGED <<fileVars, now, history>>

Tick ==
  /\ now < MaxTime
  /\ now' = now + 1
  /\ UNCHANGED <<fileVars, owner, threadVars, history>>

-------------------------------------------------------------------------------

\* mutate and write, for either caller.
Mutate(t) ==
  \/ Lock(t) \/ LockFails(t)
  \/ Read(t) \/ ReadRefused(t) \/ ReadFails(t)
  \/ OpenTmp(t) \/ WriteTmp(t) \/ WriteFails(t)
  \/ Rename(t) \/ RenameFails(t)
  \/ Unlock(t)

Next ==
  \/ \E t \in Clis : IssueFn(t) \/ \E k \in Tokens : IssueCall(t, k)
  \/ \E t \in Handlers : ConsumeFn(t) \/ \E k \in Tokens \union {Stranger} : ConsumeCall(t, k)
  \/ \E t \in Threads : Mutate(t)
  \/ \E p \in Procs : Crash(p)
  \/ Tick

Spec == Init /\ [][Next]_vars

\* What a thread does in mutate that waits for nobody.
Advance(t) == pc[t] # "lock" /\ Mutate(t)

(* A thread that has the lock keeps running, and a thread that waits for it is  *)
(* not passed over for ever by others that take it: strong fairness of Lock is  *)
(* what flock(2), which wakes its waiters at every release, gives.  Nothing     *)
(* makes Lock fail: a lock that is never released is waited for for ever.       *)
Fairness ==
  /\ \A t \in Threads : SF_vars(Lock(t)) /\ WF_vars(Advance(t))
  /\ \A t \in Clis : WF_vars(IssueFn(t))
  /\ \A t \in Handlers : WF_vars(ConsumeFn(t))

FairSpec == Spec /\ Fairness

-------------------------------------------------------------------------------

\* Every variable holds a value of its kind.
TypeOK ==
  /\ main \in Contents
  /\ tmp \in Contents \union {NoFile}
  /\ expiry \in [Tokens -> Nat]
  /\ owner \in Procs \union {None}
  /\ now \in Nat
  /\ pc \in [Threads -> {"idle", "lock"} \union Critical]
  /\ tok \in [Threads -> Tokens \union {Stranger, None}]
  /\ mem \in [Threads -> SUBSET Tokens]
  /\ fd \in [Threads -> {"closed", "tmp", "main", "gone"}]
  /\ out \in [Threads -> {"none", "ok", "unknown", "expired", "error"}]
  /\ minted \subseteq Tokens
  /\ known \subseteq Tokens
  /\ spent \subseteq Tokens
  /\ wins \in [Tokens -> 0 .. WinCap]

\* A token grants its role at most once, whatever crashes, retries and faults
\* fall between the steps of mutate (token.go: "single-use token store").
SingleUse == \A k \in Tokens : wins[k] <= 1

\* The tokens a reader of tokens.json would find.
Stored == IF main = Garbage THEN {} ELSE main

\* A token Issue has returned stays in the store until a Consume takes it out:
\* no concurrent rewrite, failed write or crash loses it (Issue: "mints a new
\* single-use token granting role, valid for ttl").
NoTokenLost == known \subseteq spent \union Stored

\* No crash or failed write between two steps of write leaves a tokens.json
\* that cannot be decoded: the rewrite goes through tokens.json.tmp.
StoreDecodable == main # Garbage

\* A Consume that answers with a role, or with ErrExpired, has already taken
\* the token off the disk (mutate: "a consumed/expired token's deletion is
\* durable"), so no answer can be followed by a second use after a crash.
AnswerDurable ==
  \A t \in Handlers : pc[t] = "unlock" /\ Removed(t) => tok[t] \notin Stored

\* The file, the lock and the crashes implement the token life of JoinTokens: a
\* token enters the store once, leaves it once and for ever, and only then
\* grants its role, once.
JT == INSTANCE JoinTokens WITH
  status <- [k \in Tokens |-> IF k \in spent THEN "spent"
                              ELSE IF k \in Stored THEN "live" ELSE "unissued"]
ImplementsJoinTokens == JT!Spec

\* Every Issue and Consume returns: the lock is released on each way out of
\* mutate and by the system when its holder dies.
CallReturns == \A t \in Threads : pc[t] # "idle" ~> pc[t] = "idle"
===============================================================================
